---- MODULE Spec2Model ----
(***************************************************************************)
(* Kabelquerschnitt: DC cable cross-section calculator.                    *)
(*                                                                         *)
(* The Go command line program (main.go = src/unnamed/part_003), the Go    *)
(* terminal UI (src/main_tui.go) and the web calculator (script.js =       *)
(* src/unnamed/part_002) as state machines over one float64 model.         *)
(*                                                                         *)
(* float64 values are modelled as exact rationals n/d in lowest terms plus *)
(* the IEEE special values NaN, +Inf and -Inf.  Rounding of the binary     *)
(* representation and the sign of zero are not modelled.                   *)
(***************************************************************************)
EXTENDS Integers, Sequences, FiniteSets, TLC

VARIABLES
    resArea,    \* resolver harness: the required area handed to the resolvers
    resGo,      \* resolver harness: what main.go's resolvers returned
    resWeb,     \* resolver harness: what script.js's resolvers returned
    progArgs,   \* os.Args[1:] of the Go program
    mode,       \* which front end the Go program runs: "none", "cli" or "tui"
    cli,        \* main(): its position (pc), its locals and what it printed
    fnArgs,     \* function harness: the arguments of one call
    fnOut,      \* function harness: what main.go's and script.js's function returned
    tui,        \* main_tui.go: the model value the Bubble Tea program holds
    tuiRun      \* main_tui.go: whether tea.Quit was returned, the Esc presses so far, whether r restarted

varsResolver == << resArea, resGo, resWeb >>
varsCli == << progArgs, mode, cli >>
varsFn == << fnArgs, fnOut >>
varsTui == << tui, tuiRun >>
vars == << resArea, resGo, resWeb, progArgs, mode, cli, fnArgs, fnOut, tui, tuiRun >>
othersOfResolver == << varsCli, varsFn, varsTui >>
othersOfCli == << varsResolver, varsFn, varsTui >>
othersOfFn == << varsResolver, varsCli, varsTui >>
othersOfTui == << varsResolver, varsCli, varsFn >>

\* The function harness before any call.
NoCall == [done |-> FALSE]
NoOutputs == [go |-> NoCall, web |-> NoCall]

FnIdle ==
    /\ fnArgs = [fn |-> "none"]
    /\ fnOut = NoOutputs

(***************************************************************************)
(* float64                                                                 *)
(***************************************************************************)
Abs(x) == IF x < 0 THEN -x ELSE x

RECURSIVE Gcd(_, _)
Gcd(a, b) == IF b = 0 THEN a ELSE Gcd(b, a % b)

\* The finite value n/d (d > 0), in lowest terms.
Fin(n, d) ==
    LET g == Gcd(Abs(n), d)
    IN  [k |-> "fin", n |-> n \div g, d |-> d \div g]

NaN  == [k |-> "nan",  n |-> 0, d |-> 1]
PInf == [k |-> "pinf", n |-> 0, d |-> 1]
NInf == [k |-> "ninf", n |-> 0, d |-> 1]
\* math.MaxFloat64: above every finite value the model computes.
MaxFloat64 == [k |-> "max", n |-> 0, d |-> 1]

Zero == Fin(0, 1)
Int2F(i) == Fin(i, 1)

IsNaN(x) == x.k = "nan"
IsFinite(x) == x.k = "fin"

\* -1, 0, 1: the sign of a value that is not NaN.
Sgn(x) ==
    CASE x.k = "pinf" -> 1
      [] x.k = "max"  -> 1
      [] x.k = "ninf" -> -1
      [] OTHER        -> IF x.n > 0 THEN 1 ELSE IF x.n < 0 THEN -1 ELSE 0

InfOf(s) == IF s > 0 THEN PInf ELSE NInf

FNeg(x) ==
    CASE x.k = "nan"  -> NaN
      [] x.k = "pinf" -> NInf
      [] x.k = "ninf" -> PInf
      [] OTHER        -> Fin(-x.n, x.d)

FAbs(x) == IF x.k = "nan" THEN NaN ELSE IF Sgn(x) < 0 THEN FNeg(x) ELSE x

FAdd(x, y) ==
    CASE x.k = "nan" \/ y.k = "nan"      -> NaN
      [] x.k = "fin" /\ y.k = "fin"      ->
            LET g == Gcd(x.d, y.d)
            IN  Fin(x.n * (y.d \div g) + y.n * (x.d \div g), (x.d \div g) * y.d)
      [] x.k = "fin"                     -> y
      [] y.k = "fin"                     -> x
      [] OTHER                           -> IF x.k = y.k THEN x ELSE NaN

FSub(x, y) == FAdd(x, FNeg(y))

FMul(x, y) ==
    CASE x.k = "nan" \/ y.k = "nan"      -> NaN
      [] x.k = "fin" /\ y.k = "fin"      ->
            LET g1 == Gcd(Abs(x.n), y.d)
                g2 == Gcd(Abs(y.n), x.d)
            IN  Fin((x.n \div g1) * (y.n \div g2), (x.d \div g2) * (y.d \div g1))
      [] OTHER                           ->
            IF Sgn(x) = 0 \/ Sgn(y) = 0 THEN NaN ELSE InfOf(Sgn(x) * Sgn(y))

FDiv(x, y) ==
    CASE x.k = "nan" \/ y.k = "nan"      -> NaN
      [] x.k = "fin" /\ y.k = "fin"      ->
            IF y.n = 0
            THEN IF x.n = 0 THEN NaN ELSE InfOf(Sgn(x))
            ELSE FMul(x, Fin(Sgn(y) * y.d, Abs(y.n)))
      [] x.k = "fin"                     -> Zero
      [] y.k = "fin"                     ->
            IF Sgn(y) < 0 THEN FNeg(x) ELSE x
      [] OTHER                           -> NaN

\* x < y as float64 compares: false when either side is NaN.  Finite values
\* are compared by their integer parts first, then by what is left.
FLt(x, y) ==
    CASE x.k = "nan" \/ y.k = "nan"      -> FALSE
      [] x.k = "fin" /\ y.k = "fin"      ->
            LET g == Gcd(x.d, y.d)
                xi == x.n \div x.d
                yi == y.n \div y.d
            IN  IF xi # yi THEN xi < yi
                ELSE (x.n % x.d) * (y.d \div g) < (y.n % y.d) * (x.d \div g)
      [] x.k = "ninf"                    -> y.k # "ninf"
      [] x.k = "pinf"                    -> FALSE
      [] x.k = "max"                     -> y.k = "pinf"
      [] OTHER                           -> y.k \in {"pinf", "max"}

FGt(x, y) == FLt(y, x)
FEq(x, y) == x.k # "nan" /\ y.k # "nan" /\ x = y
FLe(x, y) == FLt(x, y) \/ FEq(x, y)
FGe(x, y) == FLe(y, x)

\* Math.max(x, y) of script.js.
FMax(x, y) == IF IsNaN(x) \/ IsNaN(y) THEN NaN ELSE IF FLt(x, y) THEN y ELSE x
FMin(x, y) == IF IsNaN(x) \/ IsNaN(y) THEN NaN ELSE IF FLt(y, x) THEN y ELSE x

(***************************************************************************)
(* Catalog tables                                                          *)
(***************************************************************************)
\* Areas are written in thousandths of a mm2: Milli(823) is 0.823 mm2.
Milli(n) == Fin(n, 1000)

\* main.go standardMetricSizes.
standardMetricSizes ==
    << Milli(500), Milli(750), Milli(1000), Milli(1500), Milli(2500),
       Milli(4000), Milli(6000), Milli(10000), Milli(16000), Milli(25000),
       Milli(35000), Milli(50000), Milli(70000), Milli(95000), Milli(120000),
       Milli(150000), Milli(185000), Milli(240000) >>

\* main.go awgSizes.
awgSizes ==
    << [Label |-> "18",  Area |-> Milli(823)],
       [Label |-> "16",  Area |-> Milli(1309)],
       [Label |-> "14",  Area |-> Milli(2081)],
       [Label |-> "12",  Area |-> Milli(3309)],
       [Label |-> "10",  Area |-> Milli(5261)],
       [Label |-> "8",   Area |-> Milli(8367)],
       [Label |-> "6",   Area |-> Milli(13300)],
       [Label |-> "4",   Area |-> Milli(21150)],
       [Label |-> "2",   Area |-> Milli(33620)],
       [Label |-> "1",   Area |-> Milli(42410)],
       [Label |-> "1/0", Area |-> Milli(53490)],
       [Label |-> "2/0", Area |-> Milli(67430)],
       [Label |-> "3/0", Area |-> Milli(85010)],
       [Label |-> "4/0", Area |-> Milli(107200)] >>

\* script.js standardMetricSizes and awgSizes: the same numbers.
webStandardMetricSizes == standardMetricSizes
webAwgSizes == awgSizes

\* main.go materials: Resistivity20C and TempCoefficient.
copperResistivity20C == Fin(175, 10000)
aluminumResistivity20C == Fin(283, 10000)
copperTempCoefficient == Fin(393, 100000)
aluminumTempCoefficient == Fin(403, 100000)

MaterialKeys == {"copper", "aluminum"}

materials ==
    [key \in MaterialKeys |->
        IF key = "copper"
        THEN [Name |-> "Copper", Resistivity20C |-> copperResistivity20C,
              TempCoefficient |-> copperTempCoefficient]
        ELSE [Name |-> "Aluminum", Resistivity20C |-> aluminumResistivity20C,
              TempCoefficient |-> aluminumTempCoefficient]]

\* script.js materials: the same constants under the same keys.
webMaterials == materials

\* main.go referenceTemp and script.js REFERENCE_TEMP.
referenceTemp == Int2F(20)
REFERENCE_TEMP == Int2F(25)

InstallationMethods == {"air", "conduit", "isolated"}

installationTempAdjustments ==
    [i \in InstallationMethods |->
        CASE i = "air"      -> Int2F(0)
          [] i = "conduit"  -> Int2F(10)
          [] i = "isolated" -> Int2F(20)]

\* script.js installationAdjustments.
installationAdjustments == installationTempAdjustments

WireTypeKeys ==
    {"flry", "flry-a", "flry-b", "thhn", "thwn", "xlpe", "pvc", "silicon", "generic"}

wireTypes ==
    [key \in WireTypeKeys |->
        CASE key = "flry"    -> [Name |-> "FLRY",     MaxTempCelsius |-> Int2F(105)]
          [] key = "flry-a"  -> [Name |-> "FLRY-A",   MaxTempCelsius |-> Int2F(105)]
          [] key = "flry-b"  -> [Name |-> "FLRY-B",   MaxTempCelsius |-> Int2F(105)]
          [] key = "thhn"    -> [Name |-> "THHN",     MaxTempCelsius |-> Int2F(90)]
          [] key = "thwn"    -> [Name |-> "THWN",     MaxTempCelsius |-> Int2F(75)]
          [] key = "xlpe"    -> [Name |-> "XLPE",     MaxTempCelsius |-> Int2F(90)]
          [] key = "pvc"     -> [Name |-> "PVC",      MaxTempCelsius |-> Int2F(70)]
          [] key = "silicon" -> [Name |-> "Silicone", MaxTempCelsius |-> Int2F(200)]
          [] key = "generic" -> [Name |-> "Generic",  MaxTempCelsius |-> Int2F(90)]]

\* script.js wireTypes: the same names and ratings (maxTemp).
webWireTypes == wireTypes

RECURSIVE Pow10(_)
Pow10(e) == IF e = 0 THEN 1 ELSE 10 * Pow10(e - 1)

(***************************************************************************)
(* Text: a string is the sequence of its characters, "" is << >>           *)
(***************************************************************************)
EmptyString == << >>

DigitChars == << "0", "1", "2", "3", "4", "5", "6", "7", "8", "9" >>
UpperChars == << "A", "B", "C", "D", "E", "F", "G", "H", "I", "J", "K", "L", "M",
                 "N", "O", "P", "Q", "R", "S", "T", "U", "V", "W", "X", "Y", "Z" >>
LowerChars == << "a", "b", "c", "d", "e", "f", "g", "h", "i", "j", "k", "l", "m",
                 "n", "o", "p", "q", "r", "s", "t", "u", "v", "w", "x", "y", "z" >>
SpaceChars == {" ", "\t", "\n", "\r"}

IsDigit(c) == \E i \in 1..10 : DigitChars[i] = c
DigitVal(c) == (CHOOSE i \in 1..10 : DigitChars[i] = c) - 1

ToLowerChar(c) ==
    IF \E i \in 1..26 : UpperChars[i] = c
    THEN LowerChars[CHOOSE i \in 1..26 : UpperChars[i] = c]
    ELSE c

ToUpperChar(c) ==
    IF \E i \in 1..26 : LowerChars[i] = c
    THEN UpperChars[CHOOSE i \in 1..26 : LowerChars[i] = c]
    ELSE c

\* strings.ToLower, strings.ToUpper
RECURSIVE ToLower(_)
ToLower(s) == IF s = << >> THEN << >> ELSE << ToLowerChar(Head(s)) >> \o ToLower(Tail(s))

RECURSIVE ToUpper(_)
ToUpper(s) == IF s = << >> THEN << >> ELSE << ToUpperChar(Head(s)) >> \o ToUpper(Tail(s))

\* strings.TrimSpace
RECURSIVE TrimLeft(_)
TrimLeft(s) == IF s # << >> /\ Head(s) \in SpaceChars THEN TrimLeft(Tail(s)) ELSE s

RECURSIVE TrimRight(_)
TrimRight(s) ==
    IF s # << >> /\ s[Len(s)] \in SpaceChars
    THEN TrimRight(SubSeq(s, 1, Len(s) - 1))
    ELSE s

TrimSpace(s) == TrimRight(TrimLeft(s))

\* reader.ReadString('\n'): the typed line with its line break.
ReadString(typed) == typed \o << "\n" >>

(***************************************************************************)
(* strconv.ParseFloat(s, 64) for decimal texts without an exponent:        *)
(* [sign] digits [. digits], and the special values inf, infinity (with an *)
(* optional sign) and nan, in any letter case.  Anything else is a syntax  *)
(* error here; the texts of the model hold no exponent, hex or underscore  *)
(* forms.                                                                  *)
(***************************************************************************)
RECURSIVE DigitsValue(_, _)
DigitsValue(s, acc) ==
    IF s = << >> THEN acc ELSE DigitsValue(Tail(s), acc * 10 + DigitVal(Head(s)))

Text_inf == << "i", "n", "f" >>
Text_infinity == << "i", "n", "f", "i", "n", "i", "t", "y" >>
Text_nan == << "n", "a", "n" >>

ParseSpecial(s) ==
    LET signed == s # << >> /\ Head(s) \in {"+", "-"}
        body == ToLower(IF signed THEN Tail(s) ELSE s)
    IN  IF body \in {Text_inf, Text_infinity}
        THEN [ok |-> TRUE, val |-> IF s[1] = "-" THEN NInf ELSE PInf]
        ELSE IF ~signed /\ body = Text_nan
        THEN [ok |-> TRUE, val |-> NaN]
        ELSE [ok |-> FALSE, val |-> Zero]

ParseDecimal(s) ==
    LET signed == s # << >> /\ Head(s) \in {"+", "-"}
        body == IF signed THEN Tail(s) ELSE s
        dots == {i \in 1..Len(body) : body[i] = "."}
        ok == /\ Cardinality(dots) <= 1
              /\ \A i \in 1..Len(body) : body[i] = "." \/ IsDigit(body[i])
              /\ \E i \in 1..Len(body) : IsDigit(body[i])
        mant == DigitsValue(SelectSeq(body, IsDigit), 0)
        frac == IF dots = {} THEN 0 ELSE Len(body) - (CHOOSE i \in dots : TRUE)
    IN  IF ok
        THEN [ok |-> TRUE,
              val |-> Fin(IF s[1] = "-" THEN -mant ELSE mant, Pow10(frac))]
        ELSE [ok |-> FALSE, val |-> Zero]

\* val, err := strconv.ParseFloat(s, 64); val is 0 when err != nil.
ParseFloat(s) ==
    LET sp == ParseSpecial(s)
        de == ParseDecimal(s)
    IN  IF sp.ok THEN [err |-> FALSE, val |-> sp.val]
        ELSE IF de.ok THEN [err |-> FALSE, val |-> de.val]
        ELSE [err |-> TRUE, val |-> Zero]

(***************************************************************************)
(* Number formatting: fmt's %.Nf and toFixed(N)                            *)
(***************************************************************************)
\* The digits after the point of r/d (0 <= r < d), as an integer of
\* `digits` digits, and the remainder left: long division, digit by digit.
RECURSIVE FracDigits(_, _, _, _)
FracDigits(r, d, digits, acc) ==
    IF digits = 0 THEN [v |-> acc, rem |-> r]
    ELSE FracDigits((r * 10) % d, d, digits - 1, acc * 10 + ((r * 10) \div d))

\* |x| in units of 10^-digits, rounded to nearest, ties to even.
RoundScaled(x, digits) ==
    LET an == Abs(x.n)
        fd == FracDigits(an % x.d, x.d, digits, 0)
        fl == (an \div x.d) * Pow10(digits) + fd.v
        up == \/ 2 * fd.rem > x.d
              \/ 2 * fd.rem = x.d /\ fl % 2 = 1
    IN  IF up THEN fl + 1 ELSE fl

\* What %.Nf prints: the kind of value and, for a finite value, the value in
\* units of 10^-digits (neg: the printed text starts with a minus sign).
FormatFixed(x, digits) ==
    IF x.k = "fin"
    THEN [k |-> "fin", neg |-> x.n < 0, v |-> RoundScaled(x, digits)]
    ELSE [k |-> x.k, neg |-> x.k = "ninf", v |-> 0]

(***************************************************************************)
(* Thermal model and required area, Go (main.go)                           *)
(***************************************************************************)
\* The resistivity without temperature compensation: the value at 20 C.
ResistivityAt20C(material, tempCelsius) == material.Resistivity20C

\* material.Resistivity20C * (1 + material.TempCoefficient*(tempCelsius-referenceTemp))
calculateResistivityAtTemp(material, tempCelsius) ==
    FMul(material.Resistivity20C,
         FAdd(Int2F(1), FMul(material.TempCoefficient, FSub(tempCelsius, referenceTemp))))

\* (f - 32) * 5 / 9
fahrenheitToCelsius(f) == FDiv(FMul(FSub(f, Int2F(32)), Int2F(5)), Int2F(9))

calculateEffectiveTemp(ambientTempCelsius, installation) ==
    FAdd(ambientTempCelsius, installationTempAdjustments[installation])

\* A message is the sequence of its parts; the empty string is << >>.
NoMessage == << >>

\* A validation that already rejects the rating itself (>= for >).
ValidateRejectingRating(effectiveTempCelsius, wireType) ==
    IF FGe(effectiveTempCelsius, wireType.MaxTempCelsius)
    THEN [isValid |-> FALSE,
          msg |-> << "WARNING", FormatFixed(effectiveTempCelsius, 1), wireType.Name,
                     FormatFixed(wireType.MaxTempCelsius, 0) >>]
    ELSE [isValid |-> TRUE, msg |-> NoMessage]

ValidateWireTemperature(effectiveTempCelsius, wireType) ==
    IF FGt(effectiveTempCelsius, wireType.MaxTempCelsius)
    THEN [isValid |-> FALSE,
          msg |-> << "WARNING", FormatFixed(effectiveTempCelsius, 1), wireType.Name,
                     FormatFixed(wireType.MaxTempCelsius, 0) >>]
    ELSE IF FGt(effectiveTempCelsius, FMul(wireType.MaxTempCelsius, Fin(9, 10)))
    THEN [isValid |-> TRUE,
          msg |-> << "CAUTION", FormatFixed(effectiveTempCelsius, 1), wireType.Name,
                     FormatFixed(wireType.MaxTempCelsius, 0) >>]
    ELSE [isValid |-> TRUE, msg |-> NoMessage]

\* A slip of distanceFactor: the return conductor is not counted.
DistanceFactorOneWay(roundTrip) == Int2F(1)

DistanceFactor(roundTrip) == IF roundTrip THEN Int2F(2) ELSE Int2F(1)

calculateCableArea(voltage, current, length, maxVoltageDropPercent, material, roundTrip, ambientTempCelsius, installation) ==
    LET maxVoltageDrop == FMul(voltage, FDiv(maxVoltageDropPercent, Int2F(100)))
        distanceFactor == DistanceFactor(roundTrip)
        effectiveTemp == calculateEffectiveTemp(ambientTempCelsius, installation)
        resistivity == calculateResistivityAtTemp(material, effectiveTemp)
    IN  FDiv(FMul(FMul(FMul(current, resistivity), length), distanceFactor),
             maxVoltageDrop)

\* The largest r in lo..hi with r*r <= x (lo*lo <= x < (hi+1)*(hi+1)).
RECURSIVE ISqrtLoop(_, _, _)
ISqrtLoop(x, lo, hi) ==
    IF lo >= hi THEN lo
    ELSE LET mid == (lo + hi + 1) \div 2
         IN  IF mid * mid <= x THEN ISqrtLoop(x, mid, hi) ELSE ISqrtLoop(x, lo, mid - 1)

\* 46340 * 46340 is the largest square of the integer range.
ISqrt(x) == ISqrtLoop(x, 0, 46340)

\* floor(1000 * x) for a finite x >= 0.
FloorMilli(x) == (x.n \div x.d) * 1000 + FracDigits(x.n % x.d, x.d, 3, 0).v

\* math.Sqrt(4*area/math.Pi), rounded down to 0.001 mm (to 0.01 mm from
\* 1600 mm2 on), with pi taken as 355/113; math.Sqrt gives NaN for a negative
\* or NaN argument and +Inf for +Inf.
areaToDiameter(area) ==
    CASE area.k = "pinf"                  -> PInf
      [] area.k = "fin" /\ area.n >= 0    ->
            LET am == FloorMilli(area)
                fine == (am \div 355) * 452000 + ((am % 355) * 452000) \div 355
                coarse == (am \div 355) * 4520 + ((am % 355) * 4520) \div 355
            IN  IF am < 1600000
                THEN Fin(ISqrt(fine), 1000)
                ELSE Fin(ISqrt(coarse), 100)
      [] OTHER                            -> NaN

(***************************************************************************)
(* Thermal model and required area, web (script.js)                        *)
(***************************************************************************)
webCalculateResistivityAtTemp(material, tempCelsius) ==
    FMul(material.Resistivity20C,
         FAdd(Int2F(1), FMul(material.TempCoefficient, FSub(tempCelsius, REFERENCE_TEMP))))

webFahrenheitToCelsius(f) == FDiv(FMul(FSub(f, Int2F(32)), Int2F(5)), Int2F(9))

webCalculateEffectiveTemp(ambientTempCelsius, installation) ==
    FAdd(ambientTempCelsius, installationAdjustments[installation])

\* t('warningTempExceeds', ...) and t('cautionTempClose', ...): never empty.
webValidateWireTemperature(effectiveTempCelsius, wireType) ==
    IF FGt(effectiveTempCelsius, wireType.MaxTempCelsius)
    THEN [isValid |-> FALSE,
          message |-> << "warningTempExceeds", FormatFixed(effectiveTempCelsius, 1),
                         wireType.Name, wireType.MaxTempCelsius >>]
    ELSE IF FGt(effectiveTempCelsius, FMul(wireType.MaxTempCelsius, Fin(9, 10)))
    THEN [isValid |-> TRUE,
          message |-> << "cautionTempClose", FormatFixed(effectiveTempCelsius, 1),
                         wireType.Name, wireType.MaxTempCelsius >>]
    ELSE [isValid |-> TRUE, message |-> NoMessage]

webCalculateCableArea(voltage, current, length, maxVoltageDropPercent, material, roundTrip, ambientTempCelsius, installation) ==
    LET maxVoltageDrop == FMul(voltage, FDiv(maxVoltageDropPercent, Int2F(100)))
        distanceFactor == DistanceFactor(roundTrip)
        effectiveTemp == webCalculateEffectiveTemp(ambientTempCelsius, installation)
        resistivity == webCalculateResistivityAtTemp(material, effectiveTemp)
    IN  FDiv(FMul(FMul(FMul(current, resistivity), length), distanceFactor),
             maxVoltageDrop)

(***************************************************************************)
(* Standard size resolver, Go: minimum absolute difference                 *)
(***************************************************************************)
\* One pass of the loop of findClosestMetricSize over entries i..Len.
RECURSIVE GoMetricLoop(_, _, _)
GoMetricLoop(requiredArea, i, acc) ==
    IF i > Len(standardMetricSizes) THEN acc
    ELSE LET size == standardMetricSizes[i]
             diff == FAbs(FSub(size, requiredArea))
         IN  GoMetricLoop(requiredArea, i + 1,
                 IF FLt(diff, acc.minDiff)
                 THEN [closestSize |-> size, minDiff |-> diff]
                 ELSE acc)

\* A slip of findClosestMetricSize: diff <= minDiff, so of two entries equally
\* close the later one is kept.
RECURSIVE GoMetricLoopLaterOnTie(_, _, _)
GoMetricLoopLaterOnTie(requiredArea, i, acc) ==
    IF i > Len(standardMetricSizes) THEN acc
    ELSE LET size == standardMetricSizes[i]
             diff == FAbs(FSub(size, requiredArea))
         IN  GoMetricLoopLaterOnTie(requiredArea, i + 1,
                 IF FLe(diff, acc.minDiff)
                 THEN [closestSize |-> size, minDiff |-> diff]
                 ELSE acc)

ClosestMetricLaterOnTie(requiredArea) ==
    GoMetricLoopLaterOnTie(requiredArea, 1, [closestSize |-> Zero, minDiff |-> MaxFloat64])

findClosestMetricSize(requiredArea) ==
    GoMetricLoop(requiredArea, 1, [closestSize |-> Zero, minDiff |-> MaxFloat64])

RECURSIVE GoAWGLoop(_, _, _)
GoAWGLoop(requiredArea, i, acc) ==
    IF i > Len(awgSizes) THEN acc
    ELSE LET awg == awgSizes[i]
             diff == FAbs(FSub(awg.Area, requiredArea))
         IN  GoAWGLoop(requiredArea, i + 1,
                 IF FLt(diff, acc.minDiff)
                 THEN [closestLabel |-> awg.Label, closestArea |-> awg.Area,
                       minDiff |-> diff]
                 ELSE acc)

findClosestAWG(requiredArea) ==
    GoAWGLoop(requiredArea, 1,
        [closestLabel |-> "", closestArea |-> Zero, minDiff |-> MaxFloat64])

(***************************************************************************)
(* Standard size resolver, web: round up, else the largest entry           *)
(***************************************************************************)
RECURSIVE WebMetricLoop(_, _)
WebMetricLoop(requiredArea, i) ==
    IF i > Len(webStandardMetricSizes)
    THEN LET largestSize == webStandardMetricSizes[Len(webStandardMetricSizes)]
         IN  [size |-> largestSize, diff |-> FSub(requiredArea, largestSize)]
    ELSE LET size == webStandardMetricSizes[i]
         IN  IF FGe(size, requiredArea)
             THEN [size |-> size, diff |-> FSub(size, requiredArea)]
             ELSE WebMetricLoop(requiredArea, i + 1)

\* A slip of the fallback: the difference is taken as in the loop, size minus
\* required area.
WebMetricFallbackSizeMinusRequired(requiredArea) ==
    LET r == WebMetricLoop(requiredArea, 1)
    IN  [r EXCEPT !.diff = FSub(r.size, requiredArea)]

webFindClosestMetricSize(requiredArea) == WebMetricLoop(requiredArea, 1)

RECURSIVE WebAWGLoop(_, _)
WebAWGLoop(requiredArea, i) ==
    IF i > Len(webAwgSizes)
    THEN LET largestAWG == webAwgSizes[Len(webAwgSizes)]
         IN  [label |-> largestAWG.Label, area |-> largestAWG.Area,
              diff |-> FSub(requiredArea, largestAWG.Area)]
    ELSE LET awg == webAwgSizes[i]
         IN  IF FGe(awg.Area, requiredArea)
             THEN [label |-> awg.Label, area |-> awg.Area,
                   diff |-> FSub(awg.Area, requiredArea)]
             ELSE WebAWGLoop(requiredArea, i + 1)

webFindClosestAWG(requiredArea) == WebAWGLoop(requiredArea, 1)

(***************************************************************************)
(* Ampacity and fuse advisor, web (script.js)                              *)
(***************************************************************************)
\* script.js ampacityTable: base ampacity (A) of the metric size of the same
\* index, at 20 C in free air.
ampacityTable ==
    << 11, 14, 17, 22, 30, 40, 50, 70, 90, 115, 140, 175, 215, 260, 300, 340,
       385, 450 >>

\* script.js standardFuseSizes (A).
standardFuseSizes ==
    << Int2F(5), Fin(15, 2), Int2F(10), Int2F(15), Int2F(20), Int2F(25),
       Int2F(30), Int2F(35), Int2F(40), Int2F(50), Int2F(60), Int2F(70),
       Int2F(80), Int2F(100), Int2F(125), Int2F(150), Int2F(175), Int2F(200),
       Int2F(250), Int2F(300) >>

\* script.js temperatureDeratingFactors, keys sorted ascending as
\* Object.keys(...).map(Number).sort(...) leaves them.
temperatureDeratingFactors ==
    << [temp |-> Int2F(20),  factor |-> Int2F(1)],
       [temp |-> Int2F(30),  factor |-> Fin(94, 100)],
       [temp |-> Int2F(40),  factor |-> Fin(88, 100)],
       [temp |-> Int2F(50),  factor |-> Fin(82, 100)],
       [temp |-> Int2F(60),  factor |-> Fin(75, 100)],
       [temp |-> Int2F(70),  factor |-> Fin(67, 100)],
       [temp |-> Int2F(80),  factor |-> Fin(58, 100)],
       [temp |-> Int2F(90),  factor |-> Fin(49, 100)],
       [temp |-> Int2F(100), factor |-> Fin(41, 100)],
       [temp |-> Int2F(105), factor |-> Fin(36, 100)] >>

\* script.js installationDeratingFactors.
installationDeratingFactors ==
    [i \in InstallationMethods |->
        CASE i = "air"      -> Int2F(1)
          [] i = "conduit"  -> Fin(8, 10)
          [] i = "isolated" -> Fin(7, 10)]

\* calculateAmpacity, the table lookup: the base ampacity of the first metric
\* size >= area, 0 when the loop finds none.
RECURSIVE BaseAmpacityLoop(_, _)
BaseAmpacityLoop(area, i) ==
    IF i > Len(webStandardMetricSizes) THEN Zero
    ELSE IF FGe(webStandardMetricSizes[i], area) THEN Int2F(ampacityTable[i])
    ELSE BaseAmpacityLoop(area, i + 1)

\* calculateAmpacity, baseAmpacity: the lookup, else the linear extrapolation
\* from the largest entry.
BaseAmpacity(area) ==
    LET found == BaseAmpacityLoop(area, 1)
    IN  IF found = Zero
        THEN LET largestSize == webStandardMetricSizes[Len(webStandardMetricSizes)]
                 largestAmpacity == Int2F(ampacityTable[Len(ampacityTable)])
             IN  FMul(largestAmpacity, FDiv(area, largestSize))
        ELSE found

\* calculateAmpacity, materialFactor.
MaterialFactor(material) ==
    IF material.Name = webMaterials["aluminum"].Name \/ material = webMaterials["aluminum"]
    THEN Fin(61, 100)
    ELSE Int2F(1)

\* calculateAmpacity, the interpolation loop over temps[i], temps[i + 1];
\* tempFactor keeps its initial 1.0 when no pair brackets the temperature.
RECURSIVE InterpolateLoop(_, _)
InterpolateLoop(ambientTempCelsius, i) ==
    IF i > Len(temperatureDeratingFactors) - 1 THEN Int2F(1)
    ELSE LET t1 == temperatureDeratingFactors[i].temp
             t2 == temperatureDeratingFactors[i + 1].temp
             f1 == temperatureDeratingFactors[i].factor
             f2 == temperatureDeratingFactors[i + 1].factor
         IN  IF FGe(ambientTempCelsius, t1) /\ FLe(ambientTempCelsius, t2)
             THEN FAdd(f1, FMul(FSub(f2, f1),
                                FDiv(FSub(ambientTempCelsius, t1), FSub(t2, t1))))
             ELSE InterpolateLoop(ambientTempCelsius, i + 1)

\* A slip of the interpolation: the table's ends are not special-cased, the
\* first and the last pair extend past them.
RECURSIVE ExtrapolateLoop(_, _)
ExtrapolateLoop(ambientTempCelsius, i) ==
    LET last == Len(temperatureDeratingFactors) - 1
        t1 == temperatureDeratingFactors[i].temp
        t2 == temperatureDeratingFactors[i + 1].temp
        f1 == temperatureDeratingFactors[i].factor
        f2 == temperatureDeratingFactors[i + 1].factor
    IN  IF i = last \/ FLe(ambientTempCelsius, t2)
        THEN FAdd(f1, FMul(FSub(f2, f1),
                           FDiv(FSub(ambientTempCelsius, t1), FSub(t2, t1))))
        ELSE ExtrapolateLoop(ambientTempCelsius, i + 1)

TempFactorUnclamped(ambientTempCelsius) == ExtrapolateLoop(ambientTempCelsius, 1)

\* calculateAmpacity, tempFactor.
TempFactor(ambientTempCelsius) ==
    LET first == temperatureDeratingFactors[1]
        last == temperatureDeratingFactors[Len(temperatureDeratingFactors)]
    IN  IF FLe(ambientTempCelsius, first.temp) THEN first.factor
        ELSE IF FGe(ambientTempCelsius, last.temp) THEN last.factor
        ELSE InterpolateLoop(ambientTempCelsius, 1)

\* calculateAmpacity, installationFactor: a missing key reads as 1.0.
InstallationFactor(installation) ==
    IF installation \in DOMAIN installationDeratingFactors
    THEN installationDeratingFactors[installation]
    ELSE Int2F(1)

\* A slip of the penalty: the Math.max(0.5, ...) floor is left out.
TempWarningFactorNoFloor(effectiveTemp, wireType) ==
    FSub(Int2F(1),
         FDiv(FSub(effectiveTemp, FMul(wireType.MaxTempCelsius, Fin(9, 10))),
              FMul(wireType.MaxTempCelsius, Fin(1, 10))))

\* A slip of the penalty: the excess over 90 % of the rating is added.
TempWarningFactorSignSlip(effectiveTemp, wireType) ==
    FMax(Fin(1, 2),
         FAdd(Int2F(1),
              FDiv(FSub(effectiveTemp, FMul(wireType.MaxTempCelsius, Fin(9, 10))),
                   FMul(wireType.MaxTempCelsius, Fin(1, 10)))))

\* calculateAmpacity, tempWarningFactor.
TempWarningFactor(effectiveTemp, wireType) ==
    FMax(Fin(1, 2),
         FSub(Int2F(1),
              FDiv(FSub(effectiveTemp, FMul(wireType.MaxTempCelsius, Fin(9, 10))),
                   FMul(wireType.MaxTempCelsius, Fin(1, 10)))))

calculateAmpacity(area, material, installation, ambientTempCelsius, wireType) ==
    LET baseAmpacity == BaseAmpacity(area)
        materialFactor == MaterialFactor(material)
        tempFactor == TempFactor(ambientTempCelsius)
        installationFactor == InstallationFactor(installation)
        ampacity == FMul(FMul(FMul(baseAmpacity, materialFactor), tempFactor),
                         installationFactor)
        effectiveTemp == webCalculateEffectiveTemp(ambientTempCelsius, installation)
    IN  IF FGt(effectiveTemp, FMul(wireType.MaxTempCelsius, Fin(9, 10)))
        THEN FMul(ampacity, TempWarningFactor(effectiveTemp, wireType))
        ELSE ampacity

\* findRecommendedFuse, the loop: the last fuse <= maxFuseCurrent before the
\* first that is not; NoFuse stands for null.
NoFuse == [k |-> "null", n |-> 0, d |-> 1]

RECURSIVE FuseLoop(_, _, _)
FuseLoop(maxFuseCurrent, i, recommendedFuse) ==
    IF i > Len(standardFuseSizes) THEN recommendedFuse
    ELSE IF FLe(standardFuseSizes[i], maxFuseCurrent)
    THEN FuseLoop(maxFuseCurrent, i + 1, standardFuseSizes[i])
    ELSE recommendedFuse

FuseResult(recommendedFuse, ampacity, safetyFactor, maxFuseCurrent) ==
    [fuseSize |-> IF recommendedFuse = NoFuse THEN standardFuseSizes[1]
                  ELSE recommendedFuse,
     maxAmpacity |-> ampacity, safetyFactor |-> safetyFactor,
     maxFuseCurrent |-> maxFuseCurrent]

\* A slip of findRecommendedFuse: the fuses are compared with the ampacity,
\* the safety factor left out of the bound.
FuseWithoutSafetyFactor(ampacity, safetyFactor) ==
    FuseResult(FuseLoop(ampacity, 1, NoFuse), ampacity, safetyFactor,
               FMul(ampacity, safetyFactor))

\* A slip of findRecommendedFuse: the first fuse that fits is kept.
FirstFittingFuse(ampacity, safetyFactor) ==
    LET maxFuseCurrent == FMul(ampacity, safetyFactor)
    IN  FuseResult(IF FLe(standardFuseSizes[1], maxFuseCurrent)
                   THEN standardFuseSizes[1] ELSE NoFuse,
                   ampacity, safetyFactor, maxFuseCurrent)

findRecommendedFuse(ampacity, safetyFactor) ==
    LET maxFuseCurrent == FMul(ampacity, safetyFactor)
    IN  FuseResult(FuseLoop(maxFuseCurrent, 1, NoFuse), ampacity, safetyFactor,
                   maxFuseCurrent)

\* findMinimumSafeCableSize, the loop and the fallback after it.
RECURSIVE MinimumSafeMetricLoop(_, _, _, _, _, _)
MinimumSafeMetricLoop(requiredAmpacity, material, installation, ambientTempCelsius, wireType, i) ==
    IF i > Len(webStandardMetricSizes)
    THEN LET largestSize == webStandardMetricSizes[Len(webStandardMetricSizes)]
             largestAmpacity == calculateAmpacity(largestSize, material, installation,
                                                  ambientTempCelsius, wireType)
         IN  [size |-> largestSize, area |-> largestSize,
              ampacity |-> largestAmpacity,
              safe |-> FGe(largestAmpacity, requiredAmpacity)]
    ELSE LET size == webStandardMetricSizes[i]
             ampacity == calculateAmpacity(size, material, installation,
                                           ambientTempCelsius, wireType)
         IN  IF FGe(ampacity, requiredAmpacity)
             THEN [size |-> size, area |-> size, ampacity |-> ampacity, safe |-> TRUE]
             ELSE MinimumSafeMetricLoop(requiredAmpacity, material, installation,
                                        ambientTempCelsius, wireType, i + 1)

\* A slip of findMinimumSafeCableSize: the fallback is returned as safe.
MinimumSafeCableSizeAlwaysSafe(requiredCurrent, material, installation, ambientTempCelsius, wireType, safetyMargin) ==
    [MinimumSafeMetricLoop(FMul(requiredCurrent, safetyMargin), material,
                           installation, ambientTempCelsius, wireType, 1)
        EXCEPT !.safe = TRUE]

findMinimumSafeCableSize(requiredCurrent, material, installation, ambientTempCelsius, wireType, safetyMargin) ==
    MinimumSafeMetricLoop(FMul(requiredCurrent, safetyMargin), material,
                          installation, ambientTempCelsius, wireType, 1)

\* findMinimumSafeAWGSize, the loop and the fallback after it.
RECURSIVE MinimumSafeAWGLoop(_, _, _, _, _, _)
MinimumSafeAWGLoop(requiredAmpacity, material, installation, ambientTempCelsius, wireType, i) ==
    IF i > Len(webAwgSizes)
    THEN LET largestAWG == webAwgSizes[Len(webAwgSizes)]
             largestAmpacity == calculateAmpacity(largestAWG.Area, material,
                                    installation, ambientTempCelsius, wireType)
         IN  [label |-> largestAWG.Label, area |-> largestAWG.Area,
              ampacity |-> largestAmpacity,
              safe |-> FGe(largestAmpacity, requiredAmpacity)]
    ELSE LET awg == webAwgSizes[i]
             ampacity == calculateAmpacity(awg.Area, material, installation,
                                           ambientTempCelsius, wireType)
         IN  IF FGe(ampacity, requiredAmpacity)
             THEN [label |-> awg.Label, area |-> awg.Area, ampacity |-> ampacity,
                   safe |-> TRUE]
             ELSE MinimumSafeAWGLoop(requiredAmpacity, material, installation,
                                     ambientTempCelsius, wireType, i + 1)

findMinimumSafeAWGSize(requiredCurrent, material, installation, ambientTempCelsius, wireType, safetyMargin) ==
    MinimumSafeAWGLoop(FMul(requiredCurrent, safetyMargin), material, installation,
                       ambientTempCelsius, wireType, 1)

\* The resolver harness before any call.
NoGoResult ==
    [done |-> FALSE, closestMetric |-> Zero, metricDiff |-> Zero,
     closestAWG |-> "", awgArea |-> Zero, awgDiff |-> Zero]

NoWebResult ==
    [done |-> FALSE, metricSize |-> Zero, metricDiff |-> Zero,
     awgLabel |-> "", awgArea |-> Zero, awgDiff |-> Zero]

ResolverIdle ==
    /\ resArea = Zero
    /\ resGo = NoGoResult
    /\ resWeb = NoWebResult

(***************************************************************************)
(* main() of main.go: the command line prompt sequence                     *)
(***************************************************************************)
Text_y == << "y" >>
Text_yes == << "y", "e", "s" >>
Text_C == << "C" >>
Text_F == << "F" >>
Text_copper == << "c", "o", "p", "p", "e", "r" >>
Text_aluminum == << "a", "l", "u", "m", "i", "n", "u", "m" >>
Text_air == << "a", "i", "r" >>
Text_conduit == << "c", "o", "n", "d", "u", "i", "t" >>
Text_isolated == << "i", "s", "o", "l", "a", "t", "e", "d" >>
Text_flry == << "f", "l", "r", "y" >>
Text_flry_a == << "f", "l", "r", "y", "-", "a" >>
Text_flry_b == << "f", "l", "r", "y", "-", "b" >>
Text_thhn == << "t", "h", "h", "n" >>
Text_thwn == << "t", "h", "w", "n" >>
Text_xlpe == << "x", "l", "p", "e" >>
Text_pvc == << "p", "v", "c" >>
Text_silicon == << "s", "i", "l", "i", "c", "o", "n" >>
Text_generic == << "g", "e", "n", "e", "r", "i", "c" >>

\* The map keys of materials and wireTypes as texts.
MaterialKeyText ==
    [key \in MaterialKeys |-> IF key = "copper" THEN Text_copper ELSE Text_aluminum]

WireTypeKeyText ==
    [key \in WireTypeKeys |->
        CASE key = "flry"    -> Text_flry
          [] key = "flry-a"  -> Text_flry_a
          [] key = "flry-b"  -> Text_flry_b
          [] key = "thhn"    -> Text_thhn
          [] key = "thwn"    -> Text_thwn
          [] key = "xlpe"    -> Text_xlpe
          [] key = "pvc"     -> Text_pvc
          [] key = "silicon" -> Text_silicon
          [] key = "generic" -> Text_generic]

\* material, ok := materials[materialStr]; the default when !ok.
LookupMaterial(materialStr) ==
    IF \E key \in MaterialKeys : MaterialKeyText[key] = materialStr
    THEN CHOOSE key \in MaterialKeys : MaterialKeyText[key] = materialStr
    ELSE "copper"

\* wireType, ok := wireTypes[wireTypeStr]; the default when !ok.
LookupWireType(wireTypeStr) ==
    IF \E key \in WireTypeKeys : WireTypeKeyText[key] = wireTypeStr
    THEN CHOOSE key \in WireTypeKeys : WireTypeKeyText[key] = wireTypeStr
    ELSE "generic"

\* switch installStr { case "conduit": ... case "isolated": ... default: air }
LookupInstallation(installStr) ==
    CASE installStr = Text_conduit  -> "conduit"
      [] installStr = Text_isolated -> "isolated"
      [] OTHER                      -> "air"

NoReport == [done |-> FALSE]

CliStart ==
    [pc |-> "start", error |-> "",
     voltage |-> Zero, current |-> Zero, length |-> Zero,
     maxVoltageDropPercent |-> Zero, roundTrip |-> FALSE, material |-> "copper",
     tempUnitStr |-> EmptyString, ambientTemp |-> Zero, ambientTempCelsius |-> Zero,
     installation |-> "air", wireType |-> "generic", report |-> NoReport]

CliIdle ==
    /\ progArgs = << >>
    /\ mode = "none"
    /\ cli = CliStart

\* What is typed at each prompt.
ArgLines == { << >>, << "--tui" >>, << "-t" >> }
VoltageLines ==
    { << >>, << "a", "b", "c" >>, << "0" >>, << "1", "2" >>, << "6", "0" >>,
      << "N", "a", "N" >> }
CurrentLines == { << >>, << "-", "5" >>, << " ", "1", "0" >>, << "n", "a", "n" >> }
LengthLines == { << "x" >>, << "0" >>, << "5" >>, << "1", "0" >> }
DropLines == { << >>, << "3" >>, << "1", "5" >>, << "5" >>, << "N", "a", "N" >> }
RoundTripLines == { << >>, << "y" >>, << "n" >>, << "Y", "e", "s" >> }
MaterialLines ==
    { << >>, Text_copper, << "A", "l", "u", "m", "i", "n", "u", "m" >>,
      << "g", "o", "l", "d" >> }
TempUnitLines == { << >>, << "C" >>, << "f" >>, << "K" >> }
\* Temperatures are typed in the unit chosen at the prompt before.
AmbientLines(tempUnitStr) ==
    IF tempUnitStr = Text_F
    THEN { << >>, << "7", "7" >>, << "1", "4", "0" >>, << "h", "o", "t" >> }
    ELSE { << >>, << "2", "5" >>, << "8", "5" >>, << "h", "o", "t" >> }
InstallationLines ==
    { << >>, Text_air, Text_conduit, << "I", "s", "o", "l", "a", "t", "e", "d" >>,
      << "p", "i", "p", "e" >> }
WireTypeLines == { << >>, Text_flry, << "P", "V", "C" >>, << "x" >> }

\* main() up to its first prompt.  It does not look at os.Args.
MainStart ==
    /\ cli.pc = "start"
    /\ mode' = "cli"
    /\ cli' = [cli EXCEPT !.pc = "voltage"]
    /\ UNCHANGED progArgs
    /\ UNCHANGED othersOfCli

ReadVoltage(typed) ==
    /\ cli.pc = "voltage"
    /\ LET voltageStr == TrimSpace(ReadString(typed))
           r == ParseFloat(voltageStr)
       IN  IF r.err \/ FLe(r.val, Int2F(0)) \/ FGt(r.val, Int2F(50))
           THEN cli' = [cli EXCEPT !.pc = "exit", !.error = "Invalid voltage"]
           ELSE cli' = [cli EXCEPT !.pc = "current", !.voltage = r.val]
    /\ UNCHANGED << progArgs, mode >>
    /\ UNCHANGED othersOfCli

ReadCurrent(typed) ==
    /\ cli.pc = "current"
    /\ LET currentStr == TrimSpace(ReadString(typed))
           r == ParseFloat(currentStr)
       IN  IF r.err \/ FLe(r.val, Int2F(0))
           THEN cli' = [cli EXCEPT !.pc = "exit", !.error = "Invalid current"]
           ELSE cli' = [cli EXCEPT !.pc = "length", !.current = r.val]
    /\ UNCHANGED << progArgs, mode >>
    /\ UNCHANGED othersOfCli

ReadLength(typed) ==
    /\ cli.pc = "length"
    /\ LET lengthStr == TrimSpace(ReadString(typed))
           r == ParseFloat(lengthStr)
       IN  IF r.err \/ FLe(r.val, Int2F(0))
           THEN cli' = [cli EXCEPT !.pc = "exit", !.error = "Invalid length"]
           ELSE cli' = [cli EXCEPT !.pc = "drop", !.length = r.val]
    /\ UNCHANGED << progArgs, mode >>
    /\ UNCHANGED othersOfCli

\* maxVoltageDropPercent := 3.0, replaced by what was typed when it parses
\* and neither <= 0 nor > 10 holds of it.
CliDropPercent(dropStr) ==
    IF dropStr = EmptyString THEN Int2F(3)
    ELSE LET r == ParseFloat(dropStr)
         IN  IF r.err \/ FLe(r.val, Int2F(0)) \/ FGt(r.val, Int2F(10))
             THEN Int2F(3)
             ELSE r.val

ReadDrop(typed) ==
    /\ cli.pc = "drop"
    /\ cli' = [cli EXCEPT !.pc = "roundtrip",
                          !.maxVoltageDropPercent =
                              CliDropPercent(TrimSpace(ReadString(typed)))]
    /\ UNCHANGED << progArgs, mode >>
    /\ UNCHANGED othersOfCli

ReadRoundTrip(typed) ==
    /\ cli.pc = "roundtrip"
    /\ LET roundTripStr == TrimSpace(ToLower(ReadString(typed)))
       IN  cli' = [cli EXCEPT !.pc = "material",
                              !.roundTrip = roundTripStr \in {Text_y, Text_yes}]
    /\ UNCHANGED << progArgs, mode >>
    /\ UNCHANGED othersOfCli

ReadMaterial(typed) ==
    /\ cli.pc = "material"
    /\ LET materialStr == TrimSpace(ToLower(ReadString(typed)))
       IN  cli' = [cli EXCEPT !.pc = "tempunit",
                              !.material = LookupMaterial(materialStr)]
    /\ UNCHANGED << progArgs, mode >>
    /\ UNCHANGED othersOfCli

ReadTempUnit(typed) ==
    /\ cli.pc = "tempunit"
    /\ LET tempUnitStr == TrimSpace(ToUpper(ReadString(typed)))
       IN  cli' = [cli EXCEPT !.pc = "ambient",
                              !.tempUnitStr =
                                  IF tempUnitStr \in {Text_F, Text_C}
                                  THEN tempUnitStr ELSE Text_C]
    /\ UNCHANGED << progArgs, mode >>
    /\ UNCHANGED othersOfCli

ReadAmbient(typed) ==
    /\ cli.pc = "ambient"
    /\ LET tempStr == TrimSpace(ReadString(typed))
           r == ParseFloat(tempStr)
           ambientTemp == IF r.err THEN Int2F(20) ELSE r.val
           tempUnitStr == IF r.err THEN Text_C ELSE cli.tempUnitStr
       IN  cli' = [cli EXCEPT !.pc = "installation",
                              !.ambientTemp = ambientTemp,
                              !.tempUnitStr = tempUnitStr,
                              !.ambientTempCelsius =
                                  IF tempUnitStr = Text_F
                                  THEN fahrenheitToCelsius(ambientTemp)
                                  ELSE ambientTemp]
    /\ UNCHANGED << progArgs, mode >>
    /\ UNCHANGED othersOfCli

ReadInstallation(typed) ==
    /\ cli.pc = "installation"
    /\ LET installStr == TrimSpace(ToLower(ReadString(typed)))
       IN  cli' = [cli EXCEPT !.pc = "wiretype",
                              !.installation = LookupInstallation(installStr)]
    /\ UNCHANGED << progArgs, mode >>
    /\ UNCHANGED othersOfCli

\* The programs run their statements in order, each on the values the earlier
\* ones produced: With applies an operator to the value of an expression.
With(Op(_), x) == CHOOSE r \in { Op(v) : v \in {x} } : TRUE
With2(Op(_, _), x, y) == CHOOSE r \in { Op(v, w) : v \in {x}, w \in {y} } : TRUE
With3(Op(_, _, _), x, y, z) ==
    CHOOSE r \in { Op(u, v, w) : u \in {x}, v \in {y}, w \in {z} } : TRUE

\* Everything main() computes and prints after its last prompt.
CliReportFrom(c, wireTypeKey, requiredArea, sizes) ==
    LET material == materials[c.material]
        wireType == wireTypes[wireTypeKey]
        effectiveTemp == calculateEffectiveTemp(c.ambientTempCelsius, c.installation)
        verdict == ValidateWireTemperature(effectiveTemp, wireType)
        resistivity == calculateResistivityAtTemp(material, effectiveTemp)
        distanceFactor == DistanceFactor(c.roundTrip)
        load == FMul(FMul(FMul(c.current, resistivity), c.length), distanceFactor)
        actualDropMetric == FDiv(load, sizes.metric.closestSize)
        actualDropAWG == FDiv(load, sizes.awg.closestArea)
    IN  [done |-> TRUE,
         effectiveTemp |-> effectiveTemp,
         isValid |-> verdict.isValid,
         warningMsg |-> verdict.msg,
         warningPrinted |-> ~verdict.isValid \/ verdict.msg # NoMessage,
         maxVoltageDrop |->
            FDiv(FMul(c.voltage, c.maxVoltageDropPercent), Int2F(100)),
         requiredArea |-> requiredArea,
         requiredDiameter |-> sizes.requiredDiameter,
         closestMetric |-> sizes.metric.closestSize,
         metricDiff |-> sizes.metric.minDiff,
         closestAWG |-> sizes.awg.closestLabel,
         awgArea |-> sizes.awg.closestArea,
         awgDiff |-> sizes.awg.minDiff,
         actualDropMetric |-> actualDropMetric,
         actualDropPercentMetric |->
            FMul(FDiv(actualDropMetric, c.voltage), Int2F(100)),
         actualDropAWG |-> actualDropAWG,
         actualDropPercentAWG |->
            FMul(FDiv(actualDropAWG, c.voltage), Int2F(100)),
         printed |->
            [effectiveTemp |-> FormatFixed(effectiveTemp, 1),
             requiredArea |-> FormatFixed(requiredArea, 2),
             requiredDiameter |-> FormatFixed(sizes.requiredDiameter, 2),
             closestMetric |-> FormatFixed(sizes.metric.closestSize, 2),
             metricDiff |-> FormatFixed(sizes.metric.minDiff, 2),
             closestAWG |-> sizes.awg.closestLabel,
             awgArea |-> FormatFixed(sizes.awg.closestArea, 2),
             awgDiff |-> FormatFixed(sizes.awg.minDiff, 2)]]

\* requiredDiameter := areaToDiameter(requiredArea)
\* closestMetric, metricDiff := findClosestMetricSize(requiredArea)
\* closestAWG, awgArea, awgDiff := findClosestAWG(requiredArea)
CliSizes(requiredArea) ==
    [requiredDiameter |-> areaToDiameter(requiredArea),
     metric |-> findClosestMetricSize(requiredArea),
     awg |-> findClosestAWG(requiredArea)]

CliReportOfArea(c, wireTypeKey, requiredArea) ==
    With(LAMBDA sizes : CliReportFrom(c, wireTypeKey, requiredArea, sizes),
         CliSizes(requiredArea))

CliReport(c, wireTypeKey) ==
    With(LAMBDA requiredArea : CliReportOfArea(c, wireTypeKey, requiredArea),
         calculateCableArea(c.voltage, c.current, c.length, c.maxVoltageDropPercent,
                            materials[c.material], c.roundTrip, c.ambientTempCelsius,
                            c.installation))

ReadWireType(typed) ==
    /\ cli.pc = "wiretype"
    /\ \E key \in { LookupWireType(TrimSpace(ToLower(ReadString(typed)))) } :
           cli' = [cli EXCEPT !.pc = "done",
                              !.wireType = key,
                              !.report = CliReport(cli, key)]
    /\ UNCHANGED << progArgs, mode >>
    /\ UNCHANGED othersOfCli

(***************************************************************************)
(* main_tui.go: the model, validateInputs and calculate                    *)
(***************************************************************************)
\* textinput.New() with its CharLimit; inputs[0] is the one given Focus().
NewInput(charLimit, focus) ==
    [value |-> EmptyString, focus |-> focus, CharLimit |-> charLimit]

\* The zero value of calculationResults.
ZeroResults ==
    [voltage |-> Zero, current |-> Zero, length |-> Zero,
     maxVoltageDropPercent |-> Zero, roundTrip |-> FALSE,
     material |-> [Name |-> "", Resistivity20C |-> Zero, TempCoefficient |-> Zero],
     installation |-> "",
     wireType |-> [Name |-> "", MaxTempCelsius |-> Zero],
     ambientTemp |-> Zero, ambientTempDisplay |-> Zero, tempUnit |-> EmptyString,
     effectiveTemp |-> Zero, requiredArea |-> Zero, requiredDiameter |-> Zero,
     closestMetric |-> Zero, closestAWG |-> "", awgArea |-> Zero,
     actualDropMetric |-> Zero, actualDropAWG |-> Zero]

\* The keys calculate() indexes with the three selections, in list order.
materialKeys == << "copper", "aluminum" >>
installationKeys == << "air", "conduit", "isolated" >>
wireTypeKeys ==
    << "flry", "flry-a", "flry-b", "thhn", "thwn", "xlpe", "pvc", "silicon", "generic" >>

\* A list.Model is its cursor (Index()) and the number of its items.
NewList(items) == [index |-> 0, items |-> items]

initialModel ==
    [inputs |-> << NewInput(10, TRUE), NewInput(10, FALSE), NewInput(10, FALSE),
                   NewInput(10, FALSE), NewInput(10, FALSE), NewInput(1, FALSE) >>,
     focused |-> 0,
     selectedMaterial |-> 0, selectedInstallation |-> 0, selectedWireType |-> 0,
     roundTrip |-> FALSE,
     materialList |-> NewList(Len(materialKeys)),
     installationList |-> NewList(Len(installationKeys)),
     wireTypeList |-> NewList(Len(wireTypeKeys)),
     showResults |-> FALSE, results |-> ZeroResults,
     err |-> "", warning |-> NoMessage, step |-> 0]

\* m.inputs[i].Value(), i counted from 0 as in the code.
InputValue(m, i) == m.inputs[i + 1].value

\* validateInputs(): "" for nil, else the text of the error.
validateInputs(m) ==
    LET v == ParseFloat(InputValue(m, 0))
        c == ParseFloat(InputValue(m, 1))
        l == ParseFloat(InputValue(m, 2))
    IN  IF InputValue(m, 0) = EmptyString THEN "voltage is required"
        ELSE IF v.err \/ FLe(v.val, Int2F(0)) \/ FGt(v.val, Int2F(50))
        THEN "voltage must be between 0 and 50V"
        ELSE IF InputValue(m, 1) = EmptyString THEN "current is required"
        ELSE IF c.err \/ FLe(c.val, Int2F(0)) THEN "current must be positive"
        ELSE IF InputValue(m, 2) = EmptyString THEN "length is required"
        ELSE IF l.err \/ FLe(l.val, Int2F(0)) THEN "length must be positive"
        ELSE ""

\* voltage, _ := strconv.ParseFloat(...): the value ParseFloat returns, which
\* on a syntax error is 0.
ParsedOrZero(text) ==
    LET r == ParseFloat(text) IN IF r.err THEN Zero ELSE r.val

TuiDropPercent(text) ==
    IF text = EmptyString THEN Int2F(3)
    ELSE LET r == ParseFloat(text)
         IN  IF ~r.err /\ FGt(r.val, Int2F(0)) /\ FLe(r.val, Int2F(10))
             THEN r.val ELSE Int2F(3)

TuiAmbientTemp(text) ==
    IF text = EmptyString THEN Int2F(20)
    ELSE LET r == ParseFloat(text) IN IF ~r.err THEN r.val ELSE Int2F(20)

TuiTempUnit(text) ==
    IF text # EmptyString /\ ToUpper(text) \in {Text_F, Text_C}
    THEN ToUpper(text) ELSE Text_C

\* calculate(), "Parse inputs" and "Get selections".
TuiInputs(m) ==
    LET ambientTemp == TuiAmbientTemp(InputValue(m, 4))
        tempUnit == TuiTempUnit(InputValue(m, 5))
    IN  [voltage |-> ParsedOrZero(InputValue(m, 0)),
         current |-> ParsedOrZero(InputValue(m, 1)),
         length |-> ParsedOrZero(InputValue(m, 2)),
         maxVoltageDropPercent |-> TuiDropPercent(InputValue(m, 3)),
         ambientTemp |-> ambientTemp,
         tempUnit |-> tempUnit,
         ambientTempCelsius |->
            IF tempUnit = Text_F THEN fahrenheitToCelsius(ambientTemp) ELSE ambientTemp,
         roundTrip |-> m.roundTrip,
         material |-> materials[materialKeys[m.selectedMaterial + 1]],
         installation |-> installationKeys[m.selectedInstallation + 1],
         wireType |-> wireTypes[wireTypeKeys[m.selectedWireType + 1]]]

\* calculate(), "Calculate": effectiveTemp, requiredArea, resistivity.
TuiArea(in) ==
    [effectiveTemp |-> calculateEffectiveTemp(in.ambientTempCelsius, in.installation),
     requiredArea |->
        calculateCableArea(in.voltage, in.current, in.length,
                           in.maxVoltageDropPercent, in.material, in.roundTrip,
                           in.ambientTempCelsius, in.installation),
     resistivity |->
        calculateResistivityAtTemp(in.material,
            calculateEffectiveTemp(in.ambientTempCelsius, in.installation))]

\* requiredDiameter, closestMetric, _ and closestAWG, awgArea, _
TuiSizes(a) ==
    [requiredDiameter |-> areaToDiameter(a.requiredArea),
     metric |-> findClosestMetricSize(a.requiredArea),
     awg |-> findClosestAWG(a.requiredArea)]

\* m.results = calculationResults{...}
TuiResultsFrom(in, a, sizes) ==
    LET load == FMul(FMul(FMul(in.current, a.resistivity), in.length),
                     DistanceFactor(in.roundTrip))
    IN  [voltage |-> in.voltage, current |-> in.current, length |-> in.length,
         maxVoltageDropPercent |-> in.maxVoltageDropPercent,
         roundTrip |-> in.roundTrip, material |-> in.material,
         installation |-> in.installation, wireType |-> in.wireType,
         ambientTemp |-> in.ambientTempCelsius, ambientTempDisplay |-> in.ambientTemp,
         tempUnit |-> in.tempUnit, effectiveTemp |-> a.effectiveTemp,
         requiredArea |-> a.requiredArea,
         requiredDiameter |-> sizes.requiredDiameter,
         closestMetric |-> sizes.metric.closestSize,
         closestAWG |-> sizes.awg.closestLabel,
         awgArea |-> sizes.awg.closestArea,
         actualDropMetric |-> FDiv(load, sizes.metric.closestSize),
         actualDropAWG |-> FDiv(load, sizes.awg.closestArea)]

TuiResultsOfArea(in, a) == With3(TuiResultsFrom, in, a, TuiSizes(a))
TuiResultsOfInputs(in) == With2(TuiResultsOfArea, in, TuiArea(in))
TuiResults(m) == With(TuiResultsOfInputs, TuiInputs(m))

\* A calculate() in which an unsafe verdict ends the calculation: the warning
\* is set and m.results is left as it was.
GatedWarningAndResults(m, r) ==
    LET verdict == ValidateWireTemperature(r.effectiveTemp, r.wireType)
    IN  IF ~verdict.isValid
        THEN [m EXCEPT !.warning = verdict.msg]
        ELSE [m EXCEPT !.warning = verdict.msg, !.results = r]

calculateGatedByVerdict(m) == With2(GatedWarningAndResults, m, TuiResults(m))

\* isValid, warningMsg := ValidateWireTemperature(effectiveTemp, wireType)
\* m.warning = ""; if !isValid || warningMsg != "" { m.warning = warningMsg }
\* m.results = calculationResults{...}
WarningAndResults(m, r) ==
    LET verdict == ValidateWireTemperature(r.effectiveTemp, r.wireType)
    IN  [m EXCEPT !.warning = IF ~verdict.isValid \/ verdict.msg # NoMessage
                              THEN verdict.msg ELSE NoMessage,
                  !.results = r]

calculate(m) == With2(WarningAndResults, m, TuiResults(m))

(***************************************************************************)
(* main_tui.go: Update                                                     *)
(***************************************************************************)
\* A tea.KeyMsg: a named key, or runes (one typed character, or more when
\* text is pasted).
NamedKey(name) == [type |-> "key", name |-> name, runes |-> EmptyString]
RunesKey(runes) == [type |-> "runes", name |-> "", runes |-> runes]

\* msg.String(): the name of a named key, the text of runes.
MsgString(msg) ==
    IF msg.type = "key" THEN msg.name
    ELSE IF Len(msg.runes) = 1 THEN msg.runes[1] ELSE "[runes]"

\* textinput.Model.Update: an input without focus ignores the message; runes
\* are inserted at the cursor (kept at the end) up to CharLimit; ctrl+u
\* deletes what is before the cursor.
InputUpdate(input, msg) ==
    IF ~input.focus THEN input
    ELSE IF msg.type = "runes"
    THEN [input EXCEPT !.value =
            SubSeq(input.value \o msg.runes, 1,
                   IF Len(input.value) + Len(msg.runes) > input.CharLimit
                   THEN input.CharLimit ELSE Len(input.value) + Len(msg.runes))]
    ELSE IF msg.name = "ctrl+u" THEN [input EXCEPT !.value = EmptyString]
    ELSE input

\* list.Model.Update: up/k and down/j move the cursor within the items.
ListUpdate(l, msg) ==
    CASE MsgString(msg) \in {"up", "k"} ->
            [l EXCEPT !.index = IF l.index > 0 THEN l.index - 1 ELSE 0]
      [] MsgString(msg) \in {"down", "j"} ->
            [l EXCEPT !.index = IF l.index < l.items - 1 THEN l.index + 1 ELSE l.index]
      [] OTHER -> l

ListSelect(l, i) == [l EXCEPT !.index = i]

\* A slip of the focus move: the input that had the focus is not blurred.
MoveFocusWithoutBlur(m, to) ==
    [m EXCEPT !.focused = to, !.inputs[to + 1].focus = TRUE]

\* m.focused moves to index to; inputs[to].Focus(); inputs[from].Blur()
MoveFocus(m, to) ==
    [m EXCEPT !.focused = to,
              !.inputs[to + 1].focus = TRUE,
              !.inputs[m.focused + 1].focus = FALSE]

Return(m, cmd) == [m |-> m, cmd |-> cmd]

\* A slip of the input step: a failed validation sends the focus back to
\* the first field.
UpdateInputsRefocusOnError(m, msg) ==
    LET key == MsgString(msg)
        last == Len(m.inputs) - 1
        typed == [m EXCEPT !.inputs[m.focused + 1] =
                                InputUpdate(m.inputs[m.focused + 1], msg)]
    IN  CASE key \in {"ctrl+c", "q"} -> Return(m, "quit")
          [] key = "enter" ->
                IF m.focused < last
                THEN Return(MoveFocus(m, m.focused + 1), "blink")
                ELSE IF validateInputs(m) # ""
                THEN Return([MoveFocus(m, 0) EXCEPT !.err = validateInputs(m)], "nil")
                ELSE Return([m EXCEPT !.err = "", !.step = 1,
                                      !.materialList = ListSelect(m.materialList, 0)],
                            "nil")
          [] key \in {"tab", "down"} ->
                IF m.focused < last
                THEN Return(MoveFocus(m, m.focused + 1), "blink")
                ELSE Return(typed, "nil")
          [] key \in {"shift+tab", "up"} ->
                IF m.focused > 0
                THEN Return(MoveFocus(m, m.focused - 1), "blink")
                ELSE Return(typed, "nil")
          [] OTHER -> Return(typed, "nil")

\* A slip of the input step: Enter on the last field goes on to the
\* material step without validateInputs().
UpdateInputsUnvalidated(m, msg) ==
    LET key == MsgString(msg)
        last == Len(m.inputs) - 1
        typed == [m EXCEPT !.inputs[m.focused + 1] =
                                InputUpdate(m.inputs[m.focused + 1], msg)]
    IN  CASE key \in {"ctrl+c", "q"} -> Return(m, "quit")
          [] key = "enter" ->
                IF m.focused < last
                THEN Return(MoveFocus(m, m.focused + 1), "blink")
                ELSE Return([m EXCEPT !.err = "", !.step = 1,
                                      !.materialList = ListSelect(m.materialList, 0)],
                            "nil")
          [] key \in {"tab", "down"} ->
                IF m.focused < last
                THEN Return(MoveFocus(m, m.focused + 1), "blink")
                ELSE Return(typed, "nil")
          [] key \in {"shift+tab", "up"} ->
                IF m.focused > 0
                THEN Return(MoveFocus(m, m.focused - 1), "blink")
                ELSE Return(typed, "nil")
          [] OTHER -> Return(typed, "nil")

UpdateInputs(m, msg) ==
    LET key == MsgString(msg)
        last == Len(m.inputs) - 1
        typed == [m EXCEPT !.inputs[m.focused + 1] =
                                InputUpdate(m.inputs[m.focused + 1], msg)]
    IN  CASE key \in {"ctrl+c", "q"} -> Return(m, "quit")
          [] key = "enter" ->
                IF m.focused < last
                THEN Return(MoveFocus(m, m.focused + 1), "blink")
                ELSE IF validateInputs(m) # ""
                THEN Return([m EXCEPT !.err = validateInputs(m)], "nil")
                ELSE Return([m EXCEPT !.err = "", !.step = 1,
                                      !.materialList = ListSelect(m.materialList, 0)],
                            "nil")
          [] key \in {"tab", "down"} ->
                IF m.focused < last
                THEN Return(MoveFocus(m, m.focused + 1), "blink")
                ELSE Return(typed, "nil")
          [] key \in {"shift+tab", "up"} ->
                IF m.focused > 0
                THEN Return(MoveFocus(m, m.focused - 1), "blink")
                ELSE Return(typed, "nil")
          [] OTHER -> Return(typed, "nil")

UpdateMaterial(m, msg) ==
    LET key == MsgString(msg)
    IN  CASE key \in {"ctrl+c", "q"} -> Return(m, "quit")
          [] key = "enter" ->
                Return([m EXCEPT !.selectedMaterial = m.materialList.index,
                                 !.step = 2,
                                 !.installationList = ListSelect(m.installationList, 0)],
                       "nil")
          [] key = "esc" -> Return([m EXCEPT !.step = 0], "nil")
          [] OTHER ->
                Return([m EXCEPT !.materialList = ListUpdate(m.materialList, msg)], "nil")

\* A slip of the installation step: Esc leads back to the input step.
UpdateInstallationEscToInputs(m, msg) ==
    LET key == MsgString(msg)
    IN  CASE key \in {"ctrl+c", "q"} -> Return(m, "quit")
          [] key = "enter" ->
                Return([m EXCEPT !.selectedInstallation = m.installationList.index,
                                 !.step = 3,
                                 !.wireTypeList = ListSelect(m.wireTypeList, 8)],
                       "nil")
          [] key = "esc" -> Return([m EXCEPT !.step = 0], "nil")
          [] OTHER ->
                Return([m EXCEPT !.installationList =
                                    ListUpdate(m.installationList, msg)], "nil")

UpdateInstallation(m, msg) ==
    LET key == MsgString(msg)
    IN  CASE key \in {"ctrl+c", "q"} -> Return(m, "quit")
          [] key = "enter" ->
                Return([m EXCEPT !.selectedInstallation = m.installationList.index,
                                 !.step = 3,
                                 !.wireTypeList = ListSelect(m.wireTypeList, 8)],
                       "nil")
          [] key = "esc" -> Return([m EXCEPT !.step = 1], "nil")
          [] OTHER ->
                Return([m EXCEPT !.installationList =
                                    ListUpdate(m.installationList, msg)], "nil")

UpdateWireType(m, msg) ==
    LET key == MsgString(msg)
    IN  CASE key \in {"ctrl+c", "q"} -> Return(m, "quit")
          [] key = "enter" ->
                Return([m EXCEPT !.selectedWireType = m.wireTypeList.index,
                                 !.step = 4], "nil")
          [] key = "esc" -> Return([m EXCEPT !.step = 2], "nil")
          [] OTHER ->
                Return([m EXCEPT !.wireTypeList = ListUpdate(m.wireTypeList, msg)], "nil")

UpdateRoundTrip(m, msg) ==
    LET key == MsgString(msg)
    IN  CASE key \in {"ctrl+c", "q"} -> Return(m, "quit")
          [] key \in {"y", "Y"} ->
                Return([calculate([m EXCEPT !.roundTrip = TRUE]) EXCEPT !.step = 5], "nil")
          [] key \in {"n", "N", "enter"} ->
                Return([calculate([m EXCEPT !.roundTrip = FALSE]) EXCEPT !.step = 5], "nil")
          [] key = "esc" -> Return([m EXCEPT !.step = 3], "nil")
          [] OTHER -> Return(m, "nil")

\* A slip of the results step: r leads back to the input step with what was
\* entered and calculated still in the model.
UpdateResultsKeepingInputs(m, msg) ==
    LET key == MsgString(msg)
    IN  CASE key \in {"ctrl+c", "q"} -> Return(m, "quit")
          [] key = "r" -> Return([m EXCEPT !.step = 0], "blink")
          [] OTHER -> Return(m, "nil")

UpdateResults(m, msg) ==
    LET key == MsgString(msg)
    IN  CASE key \in {"ctrl+c", "q"} -> Return(m, "quit")
          [] key = "r" -> Return(initialModel, "blink")
          [] OTHER -> Return(m, "nil")

\* Update(msg) for a tea.KeyMsg: switch m.step.
Update(m, msg) ==
    CASE m.step = 0 -> UpdateInputs(m, msg)
      [] m.step = 1 -> UpdateMaterial(m, msg)
      [] m.step = 2 -> UpdateInstallation(m, msg)
      [] m.step = 3 -> UpdateWireType(m, msg)
      [] m.step = 4 -> UpdateRoundTrip(m, msg)
      [] m.step = 5 -> UpdateResults(m, msg)
      [] OTHER      -> Return(m, "nil")

(***************************************************************************)
(* The TUI program: key presses delivered to Update until tea.Quit         *)
(***************************************************************************)
\* Texts are typed into a field while it holds at most MaxFieldLen
\* characters, and Esc is pressed at most MaxEscapes times in a run.  On the
\* input step r is typed into the voltage field while that is empty.  The run
\* remembers whether r was pressed on the results step.
MaxFieldLen == 3
MaxEscapes == 1

TuiStart == [quit |-> FALSE, escapes |-> 0, restarted |-> FALSE]

TuiIdle ==
    /\ tui = initialModel
    /\ tuiRun = TuiStart

\* What is typed into inputs[i].
FieldTexts(i) ==
    CASE i = 0 -> { << "1", "2" >>, << "N", "a", "N" >> }
      [] i = 1 -> { << "1", "0" >>, << "-", "5" >> }
      [] i = 2 -> { << "5", ".", "0" >> }
      [] i = 3 -> { << "5", ".", "0" >> }
      [] i = 4 -> { << "1", "8", "5" >> }
      [] OTHER -> { << "f" >> }

\* The program loop: Update(msg) replaces the model; tea.Quit ends the loop.
Deliver(msg) ==
    /\ ~tuiRun.quit
    /\ \E u \in { Update(tui, msg) } :
           /\ tui' = u.m
           /\ tuiRun' = [quit |-> u.cmd = "quit",
                         escapes |-> IF MsgString(msg) = "esc"
                                     THEN tuiRun.escapes + 1 ELSE tuiRun.escapes,
                         restarted |-> \/ tuiRun.restarted
                                       \/ tui.step = 5 /\ MsgString(msg) = "r"]
    /\ UNCHANGED othersOfTui

PressEnter == Deliver(NamedKey("enter"))
PressTab == Deliver(NamedKey("tab"))
PressShiftTab == Deliver(NamedKey("shift+tab"))
PressDown == Deliver(NamedKey("down"))
PressUp == Deliver(NamedKey("up"))
PressEsc == tuiRun.escapes < MaxEscapes /\ Deliver(NamedKey("esc"))
PressCtrlC == Deliver(NamedKey("ctrl+c"))
PressCtrlU == tui.step = 0 /\ Deliver(NamedKey("ctrl+u"))
PressQ == Deliver(RunesKey(<< "q" >>))
PressY == tui.step # 0 /\ \E c \in {"y", "Y"} : Deliver(RunesKey(<< c >>))
PressN == tui.step # 0 /\ \E c \in {"n", "N"} : Deliver(RunesKey(<< c >>))
PressR ==
    /\ tui.step = 0 => tui.focused = 0 /\ InputValue(tui, 0) = EmptyString
    /\ Deliver(RunesKey(<< "r" >>))

TypeText(text) ==
    /\ tui.step = 0
    /\ Len(InputValue(tui, tui.focused)) + Len(text) <= MaxFieldLen
    /\ Deliver(RunesKey(text))

InitTui ==
    /\ tui = initialModel
    /\ tuiRun = TuiStart
    /\ ResolverIdle
    /\ CliIdle
    /\ FnIdle

NextTui ==
    \/ PressEnter
    \/ PressTab
    \/ PressShiftTab
    \/ PressDown
    \/ PressUp
    \/ PressEsc
    \/ PressCtrlC
    \/ PressCtrlU
    \/ PressQ
    \/ PressY
    \/ PressN
    \/ PressR
    \/ \E text \in FieldTexts(tui.focused) : TypeText(text)

SpecTui == InitTui /\ [][NextTui]_vars

(***************************************************************************)
(* Resolver harness: both resolvers applied to one required area, as the   *)
(* table tests of main_test.go and test-runner.js do.                      *)
(***************************************************************************)
\* Required areas tried: a grid of MaxAreaSteps steps of AreaStep/1000 mm2
\* (past the largest metric size), every table entry, the midpoint of every
\* two neighbouring entries, and 0.001 mm2 to either side of each.
AreaStep == 500
MaxAreaSteps == 520

ToMilli2(x) == (x.n * 2000) \div x.d

TablePoints ==
    {ToMilli2(standardMetricSizes[i]) : i \in 1..Len(standardMetricSizes)}
        \cup {ToMilli2(awgSizes[i].Area) : i \in 1..Len(awgSizes)}

MidPoints ==
    {(ToMilli2(standardMetricSizes[i]) + ToMilli2(standardMetricSizes[i + 1])) \div 2 :
        i \in 1..(Len(standardMetricSizes) - 1)}
        \cup {(ToMilli2(awgSizes[i].Area) + ToMilli2(awgSizes[i + 1].Area)) \div 2 :
                i \in 1..(Len(awgSizes) - 1)}

AreaInputs ==
    {Fin(k * AreaStep, 1000) : k \in 0..MaxAreaSteps}
        \cup {Fin(p + e, 2000) : p \in TablePoints \cup MidPoints, e \in {-2, 0, 2}}

InitResolver ==
    /\ resArea \in AreaInputs
    /\ resGo = NoGoResult
    /\ resWeb = NoWebResult
    /\ CliIdle
    /\ FnIdle
    /\ TuiIdle

\* closestMetric, metricDiff := findClosestMetricSize(requiredArea)
\* closestAWG, awgArea, awgDiff := findClosestAWG(requiredArea)
GoResolve ==
    /\ ~resGo.done
    /\ LET mr == findClosestMetricSize(resArea)
           ar == findClosestAWG(resArea)
       IN  resGo' = [done |-> TRUE,
                     closestMetric |-> mr.closestSize, metricDiff |-> mr.minDiff,
                     closestAWG |-> ar.closestLabel, awgArea |-> ar.closestArea,
                     awgDiff |-> ar.minDiff]
    /\ UNCHANGED << resArea, resWeb >>
    /\ UNCHANGED othersOfResolver

\* const metricResult = findClosestMetricSize(requiredArea);
\* const awgResult = findClosestAWG(requiredArea);
WebResolve ==
    /\ ~resWeb.done
    /\ LET mr == webFindClosestMetricSize(resArea)
           ar == webFindClosestAWG(resArea)
       IN  resWeb' = [done |-> TRUE,
                      metricSize |-> mr.size, metricDiff |-> mr.diff,
                      awgLabel |-> ar.label, awgArea |-> ar.area,
                      awgDiff |-> ar.diff]
    /\ UNCHANGED << resArea, resGo >>
    /\ UNCHANGED othersOfResolver

NextResolver == GoResolve \/ WebResolve

SpecResolver == InitResolver /\ [][NextResolver]_vars

(***************************************************************************)
(* The command line program as one run of main()                           *)
(***************************************************************************)
InitCli ==
    /\ progArgs \in ArgLines
    /\ mode = "none"
    /\ cli = CliStart
    /\ ResolverIdle
    /\ FnIdle
    /\ TuiIdle

NextCli ==
    \/ MainStart
    \/ \E typed \in VoltageLines : ReadVoltage(typed)
    \/ \E typed \in CurrentLines : ReadCurrent(typed)
    \/ \E typed \in LengthLines : ReadLength(typed)
    \/ \E typed \in DropLines : ReadDrop(typed)
    \/ \E typed \in RoundTripLines : ReadRoundTrip(typed)
    \/ \E typed \in MaterialLines : ReadMaterial(typed)
    \/ \E typed \in TempUnitLines : ReadTempUnit(typed)
    \/ \E typed \in AmbientLines(cli.tempUnitStr) : ReadAmbient(typed)
    \/ \E typed \in InstallationLines : ReadInstallation(typed)
    \/ \E typed \in WireTypeLines : ReadWireType(typed)

SpecCli == InitCli /\ [][NextCli]_vars

(***************************************************************************)
(* Function harness: calculateCableArea and ValidateWireTemperature of     *)
(* main.go and of script.js called with the same arguments, as the table   *)
(* tests of main_test.go and test-runner.js call them.                     *)
(***************************************************************************)
\* Arguments of calculateCableArea: zero voltage and zero percent included,
\* and an ambient temperature below that at which the linear resistivity
\* reaches zero.
AreaVoltages == { Int2F(0), Int2F(12), Int2F(24), Int2F(48) }
AreaCurrents == { Int2F(5), Int2F(10) }
AreaLengths == { Int2F(5), Int2F(20) }
AreaDropPercents == { Int2F(0), Int2F(3), Int2F(5) }
AreaAmbients == { Int2F(-300), Int2F(-10), Int2F(0), Int2F(20), Int2F(25), Int2F(40) }

AreaArgs ==
    [fn : {"calculateCableArea"}, voltage : AreaVoltages, current : AreaCurrents,
     length : AreaLengths, maxVoltageDropPercent : AreaDropPercents,
     material : MaterialKeys, roundTrip : BOOLEAN,
     ambientTempCelsius : AreaAmbients, installation : InstallationMethods]

\* Arguments of ValidateWireTemperature: for every wire type its rating, 90 %
\* of it, 0.1 and 1 degree to either side of both, and the special values.
TempOffsets == { Fin(-1, 1), Fin(-1, 10), Zero, Fin(1, 10), Fin(1, 1) }

TempsAround(wireType) ==
    { FAdd(wireType.MaxTempCelsius, o) : o \in TempOffsets }
        \cup { FAdd(FMul(wireType.MaxTempCelsius, Fin(9, 10)), o) : o \in TempOffsets }
        \cup { Int2F(-40), Int2F(20), NaN, PInf, NInf }

ValidateArgs ==
    UNION { [fn : {"ValidateWireTemperature"}, wireType : {key},
             effectiveTempCelsius : TempsAround(wireTypes[key])] : key \in WireTypeKeys }

GoCalculateCableArea ==
    /\ fnArgs.fn = "calculateCableArea"
    /\ ~fnOut.go.done
    /\ \E requiredArea \in
            { calculateCableArea(fnArgs.voltage, fnArgs.current, fnArgs.length,
                  fnArgs.maxVoltageDropPercent, materials[fnArgs.material],
                  fnArgs.roundTrip, fnArgs.ambientTempCelsius, fnArgs.installation) } :
          fnOut' = [fnOut EXCEPT !.go =
                [done |-> TRUE, area |-> requiredArea,
                 diameter |-> areaToDiameter(requiredArea), err |-> FALSE]]
    /\ UNCHANGED fnArgs
    /\ UNCHANGED othersOfFn

WebCalculateCableArea ==
    /\ fnArgs.fn = "calculateCableArea"
    /\ ~fnOut.web.done
    /\ \E requiredArea \in
            { webCalculateCableArea(fnArgs.voltage, fnArgs.current, fnArgs.length,
                  fnArgs.maxVoltageDropPercent, webMaterials[fnArgs.material],
                  fnArgs.roundTrip, fnArgs.ambientTempCelsius, fnArgs.installation) } :
          fnOut' = [fnOut EXCEPT !.web =
                [done |-> TRUE, area |-> requiredArea,
                 diameter |-> areaToDiameter(requiredArea), err |-> FALSE]]
    /\ UNCHANGED fnArgs
    /\ UNCHANGED othersOfFn

GoValidateWireTemperature ==
    /\ fnArgs.fn = "ValidateWireTemperature"
    /\ ~fnOut.go.done
    /\ LET r == ValidateWireTemperature(fnArgs.effectiveTempCelsius,
                                        wireTypes[fnArgs.wireType])
       IN  fnOut' = [fnOut EXCEPT !.go =
                        [done |-> TRUE, isValid |-> r.isValid, msg |-> r.msg]]
    /\ UNCHANGED fnArgs
    /\ UNCHANGED othersOfFn

WebValidateWireTemperature ==
    /\ fnArgs.fn = "ValidateWireTemperature"
    /\ ~fnOut.web.done
    /\ LET r == webValidateWireTemperature(fnArgs.effectiveTempCelsius,
                                           webWireTypes[fnArgs.wireType])
       IN  fnOut' = [fnOut EXCEPT !.web =
                        [done |-> TRUE, isValid |-> r.isValid, msg |-> r.message]]
    /\ UNCHANGED fnArgs
    /\ UNCHANGED othersOfFn

InitArea ==
    /\ fnArgs \in AreaArgs
    /\ fnOut = NoOutputs
    /\ ResolverIdle
    /\ CliIdle
    /\ TuiIdle

NextArea == GoCalculateCableArea \/ WebCalculateCableArea

SpecArea == InitArea /\ [][NextArea]_vars

InitValidate ==
    /\ fnArgs \in ValidateArgs
    /\ fnOut = NoOutputs
    /\ ResolverIdle
    /\ CliIdle
    /\ TuiIdle

NextValidate == GoValidateWireTemperature \/ WebValidateWireTemperature

SpecValidate == InitValidate /\ [][NextValidate]_vars

(***************************************************************************)
(* Advisor harness: findRecommendedFuse, calculateAmpacity and the         *)
(* findMinimumSafe... searches of script.js, each called on its own with   *)
(* arguments from a table.                                                 *)
(***************************************************************************)
\* Ampacities tried for the fuse: a grid of MaxFuseSteps steps of
\* FuseStep/10 A (past the largest fuse over the smallest safety factor's
\* reach), and the special values.
FuseStep == 25
MaxFuseSteps == 160

FuseAmpacities ==
    {Fin(k * FuseStep, 10) : k \in 0..MaxFuseSteps}
        \cup {Int2F(-5), Fin(59, 10), NaN, PInf, NInf}

\* 0.85 is the default of the safetyFactor parameter.
FuseSafetyFactors == {Fin(85, 100), Int2F(1), Fin(1, 2)}

FuseArgs ==
    [fn : {"findRecommendedFuse"}, ampacity : FuseAmpacities,
     safetyFactor : FuseSafetyFactors]

WebFindRecommendedFuse ==
    /\ fnArgs.fn = "findRecommendedFuse"
    /\ ~fnOut.web.done
    /\ fnOut' = [fnOut EXCEPT !.web =
            [done |-> TRUE,
             result |-> findRecommendedFuse(fnArgs.ampacity, fnArgs.safetyFactor)]]
    /\ UNCHANGED fnArgs
    /\ UNCHANGED othersOfFn

InitFuse ==
    /\ fnArgs \in FuseArgs
    /\ fnOut = NoOutputs
    /\ ResolverIdle
    /\ CliIdle
    /\ TuiIdle

NextFuse == WebFindRecommendedFuse

SpecFuse == InitFuse /\ [][NextFuse]_vars

\* Arguments of calculateAmpacity: areas on the metric table, off it (AWG 14)
\* and past it; ambient temperatures on and between the derating
\* table's entries, past both its ends, to either side of 90 % of each wire
\* type's rating for each installation, and the special values.
AmpacityAreas == { Milli(1000), Milli(2081), Milli(300000) }

AmpacityAmbients ==
    { Int2F(-10), Int2F(20), Int2F(25), Int2F(45), Int2F(62), Int2F(64),
      Int2F(66), Int2F(70), Int2F(75), Int2F(85), Int2F(95), Int2F(100),
      Int2F(105), Int2F(110), Int2F(175), Int2F(190), Int2F(220),
      NaN, PInf, NInf }

AmpacityArgs ==
    [fn : {"calculateAmpacity"}, area : AmpacityAreas, material : MaterialKeys,
     installation : InstallationMethods, ambientTempCelsius : AmpacityAmbients,
     wireType : WireTypeKeys]

NoAmpacityOutputs == [go |-> NoCall, web |-> NoCall, warmer |-> NoCall]

\* calculateAmpacity(area, material, installation, ambientTempCelsius,
\* wireType), with the value its local tempFactor takes.
WebCalculateAmpacity ==
    /\ fnArgs.fn = "calculateAmpacity"
    /\ ~fnOut.web.done
    /\ fnOut' = [fnOut EXCEPT !.web =
            [done |-> TRUE,
             tempFactor |-> TempFactor(fnArgs.ambientTempCelsius),
             ampacity |-> calculateAmpacity(fnArgs.area, webMaterials[fnArgs.material],
                              fnArgs.installation, fnArgs.ambientTempCelsius,
                              webWireTypes[fnArgs.wireType])]]
    /\ UNCHANGED fnArgs
    /\ UNCHANGED othersOfFn

\* The same call at an ambient temperature that is not lower.
WebCalculateAmpacityWarmer ==
    /\ fnArgs.fn = "calculateAmpacity"
    /\ ~fnOut.warmer.done
    /\ \E t \in AmpacityAmbients :
        /\ FLe(fnArgs.ambientTempCelsius, t)
        /\ fnOut' = [fnOut EXCEPT !.warmer =
                [done |-> TRUE, ambientTempCelsius |-> t,
                 ampacity |-> calculateAmpacity(fnArgs.area,
                                  webMaterials[fnArgs.material], fnArgs.installation,
                                  t, webWireTypes[fnArgs.wireType])]]
    /\ UNCHANGED fnArgs
    /\ UNCHANGED othersOfFn

InitAmpacity ==
    /\ fnArgs \in AmpacityArgs
    /\ fnOut = NoAmpacityOutputs
    /\ ResolverIdle
    /\ CliIdle
    /\ TuiIdle

NextAmpacity == WebCalculateAmpacity \/ WebCalculateAmpacityWarmer

SpecAmpacity == InitAmpacity /\ [][NextAmpacity]_vars

\* Arguments of findMinimumSafeCableSize and findMinimumSafeAWGSize: currents
\* a table entry carries exactly, currents between entries, currents no
\* entry carries, and the special values; 1.1 is the default safetyMargin.
MinimumSafeCurrents ==
    { Zero, Int2F(10), Int2F(17), Int2F(50), Int2F(200), Int2F(300), Int2F(500),
      NaN, PInf }

MinimumSafeAmbients == { Int2F(20), Int2F(64), Int2F(110) }

MinimumSafeMargins == { Fin(11, 10), Int2F(1) }

MinimumSafeArgs ==
    [fn : {"findMinimumSafeSize"}, requiredCurrent : MinimumSafeCurrents,
     material : MaterialKeys, installation : InstallationMethods,
     ambientTempCelsius : MinimumSafeAmbients, wireType : WireTypeKeys,
     safetyMargin : MinimumSafeMargins]

NoMinimumSafeOutputs == [go |-> NoCall, web |-> NoCall, awg |-> NoCall]

WebFindMinimumSafeCableSize ==
    /\ fnArgs.fn = "findMinimumSafeSize"
    /\ ~fnOut.web.done
    /\ fnOut' = [fnOut EXCEPT !.web =
            [done |-> TRUE,
             result |-> findMinimumSafeCableSize(fnArgs.requiredCurrent,
                            webMaterials[fnArgs.material], fnArgs.installation,
                            fnArgs.ambientTempCelsius, webWireTypes[fnArgs.wireType],
                            fnArgs.safetyMargin)]]
    /\ UNCHANGED fnArgs
    /\ UNCHANGED othersOfFn

WebFindMinimumSafeAWGSize ==
    /\ fnArgs.fn = "findMinimumSafeSize"
    /\ ~fnOut.awg.done
    /\ fnOut' = [fnOut EXCEPT !.awg =
            [done |-> TRUE,
             result |-> findMinimumSafeAWGSize(fnArgs.requiredCurrent,
                            webMaterials[fnArgs.material], fnArgs.installation,
                            fnArgs.ambientTempCelsius, webWireTypes[fnArgs.wireType],
                            fnArgs.safetyMargin)]]
    /\ UNCHANGED fnArgs
    /\ UNCHANGED othersOfFn

InitMinimumSafe ==
    /\ fnArgs \in MinimumSafeArgs
    /\ fnOut = NoMinimumSafeOutputs
    /\ ResolverIdle
    /\ CliIdle
    /\ TuiIdle

NextMinimumSafe == WebFindMinimumSafeCableSize \/ WebFindMinimumSafeAWGSize

SpecMinimumSafe == InitMinimumSafe /\ [][NextMinimumSafe]_vars

(***************************************************************************)
(* calculate() of script.js: the web page's form and its results           *)
(***************************************************************************)
Text_Infinity == << "I", "n", "f", "i", "n", "i", "t", "y" >>

\* parseFloat(s): leading white space is skipped, the longest prefix that is
\* a decimal literal is read, and NaN is the result when there is none.
\* (Exponents are not read: no form text here carries one.)
webParseFloat(s) ==
    LET t == TrimLeft(s)
        signed == t # << >> /\ Head(t) \in {"+", "-"}
        body == IF signed THEN Tail(t) ELSE t
        prefixes == { n \in 1..Len(t) : ParseDecimal(SubSeq(t, 1, n)).ok }
    IN  IF Len(body) >= Len(Text_Infinity)
           /\ SubSeq(body, 1, Len(Text_Infinity)) = Text_Infinity
        THEN IF t[1] = "-" THEN NInf ELSE PInf
        ELSE IF prefixes = {} THEN NaN
        ELSE ParseDecimal(SubSeq(t, 1,
                 CHOOSE n \in prefixes : \A k \in prefixes : k <= n)).val

\* !x of a number: NaN and zero are falsy.
Falsy(x) == IsNaN(x) \/ FEq(x, Zero)

\* x || fallback
OrElse(x, fallback) == IF Falsy(x) THEN fallback ELSE x

\* The values calculate() reads from the form.
WebInputs(form) ==
    [voltage |-> webParseFloat(form.voltage),
     current |-> webParseFloat(form.current),
     length |-> webParseFloat(form.length),
     maxVoltageDropPercent |-> OrElse(webParseFloat(form.voltageDrop), Int2F(3)),
     ambientTemp |-> OrElse(webParseFloat(form.temperature), Int2F(20)),
     tempUnit |-> form.tempUnit,
     roundTrip |-> form.roundTrip = "true",
     materialKey |-> form.material,
     installation |-> form.installation,
     wireTypeKey |-> form.wireType]

MAX_VOLTAGE == Int2F(60)

\* The validation of calculate(): the alert it raises, "" when it raises none.
WebAlert(in) ==
    IF Falsy(in.voltage) \/ FLe(in.voltage, Zero) \/ FGt(in.voltage, MAX_VOLTAGE)
    THEN "errorInvalidVoltage"
    ELSE IF Falsy(in.current) \/ FLe(in.current, Zero)
    THEN "errorInvalidCurrent"
    ELSE IF Falsy(in.length) \/ FLe(in.length, Zero)
    THEN "errorInvalidLength"
    ELSE ""

WebAmbientTempCelsius(in) ==
    IF in.tempUnit = "F" THEN webFahrenheitToCelsius(in.ambientTemp)
    ELSE in.ambientTemp

\* The text in brackets after a recommended size.
DiffNote(diff) ==
    IF FGe(diff, Zero) THEN << "roundedUp", FormatFixed(diff, 2) >>
    ELSE << "largestAvailable", FormatFixed(FAbs(diff), 2) >>

\* The fuse warning box: hidden, red with the safe sizes, or yellow.
WebFuseWarning(in, ambientTempCelsius, metricAmpacity, awgAmpacity, metricFuse, awgFuse) ==
    LET material == webMaterials[in.materialKey]
        wireType == webWireTypes[in.wireTypeKey]
    IN  IF FGt(in.current, metricAmpacity) \/ FGt(in.current, awgAmpacity)
        THEN [box |-> "fuseWarningCurrentExceeds",
              exceededAmpacity |-> FMin(metricAmpacity, awgAmpacity),
              safeMetric |-> findMinimumSafeCableSize(in.current, material,
                                 in.installation, ambientTempCelsius, wireType,
                                 Fin(11, 10)),
              safeAWG |-> findMinimumSafeAWGSize(in.current, material,
                                 in.installation, ambientTempCelsius, wireType,
                                 Fin(11, 10))]
        ELSE IF \/ FGt(in.current, metricFuse.maxFuseCurrent)
                \/ FGt(in.current, awgFuse.maxFuseCurrent)
        THEN [box |-> "fuseWarningCurrentHigh"]
        ELSE [box |-> "hidden"]

\* What calculate() shows for the two recommended sizes.
WebAdvice(in, ambientTempCelsius, metricResult, awgResult) ==
    LET material == webMaterials[in.materialKey]
        wireType == webWireTypes[in.wireTypeKey]
        metricAmpacity == calculateAmpacity(metricResult.size, material,
                              in.installation, ambientTempCelsius, wireType)
        awgAmpacity == calculateAmpacity(awgResult.area, material,
                              in.installation, ambientTempCelsius, wireType)
    IN  With2(LAMBDA ma, aa :
            With2(LAMBDA mf, af :
                [metricAmpacity |-> ma, awgAmpacity |-> aa,
                 metricFuse |-> mf, awgFuse |-> af,
                 fuseWarning |-> WebFuseWarning(in, ambientTempCelsius, ma, aa, mf, af)],
              findRecommendedFuse(ma, Fin(85, 100)),
              findRecommendedFuse(aa, Fin(85, 100))),
          metricAmpacity, awgAmpacity)

WebResultsOfArea(in, ambientTempCelsius, requiredArea) ==
    With2(LAMBDA metricResult, awgResult :
            [shown |-> TRUE, alert |-> "",
             maxVoltageDropPercent |-> in.maxVoltageDropPercent,
             ambientTempCelsius |-> ambientTempCelsius,
             requiredArea |-> requiredArea,
             requiredDiameter |-> areaToDiameter(requiredArea),
             metric |-> metricResult, awg |-> awgResult,
             metricNote |-> DiffNote(metricResult.diff),
             awgNote |-> DiffNote(awgResult.diff),
             advice |-> WebAdvice(in, ambientTempCelsius, metricResult, awgResult)],
          webFindClosestMetricSize(requiredArea), webFindClosestAWG(requiredArea))

\* calculate(): the page after the button is pressed.
webCalculate(form) ==
    LET in == WebInputs(form)
        ambientTempCelsius == WebAmbientTempCelsius(in)
    IN  IF WebAlert(in) # ""
        THEN [shown |-> FALSE, alert |-> WebAlert(in)]
        ELSE With(LAMBDA requiredArea :
                    WebResultsOfArea(in, ambientTempCelsius, requiredArea),
                  webCalculateCableArea(in.voltage, in.current, in.length,
                      in.maxVoltageDropPercent, webMaterials[in.materialKey],
                      in.roundTrip, ambientTempCelsius, in.installation))

\* The form's fields as the page's number inputs and selects hold them.
WebVoltageTexts == { << "1", "2" >>, << >>, << "7", "2" >> }
WebCurrentTexts == { << "1", "0" >>, << "3", "2" >>, << "2", "0", "0" >> }
WebLengthTexts == { << "2" >>, << "5", "0" >> }
WebDropTexts ==
    { << >>, << "0" >>, << "3" >>, << "1", "0" >>, << "1", "5" >>, << "-", "5" >> }

WebTemperatureTexts(tempUnit) ==
    IF tempUnit = "F" THEN { << "1", "8", "5" >> }
    ELSE { << >>, << "8", "5" >> }

WebForms ==
    { f \in [fn : {"calculate"}, voltage : WebVoltageTexts,
             current : WebCurrentTexts, length : WebLengthTexts,
             voltageDrop : WebDropTexts,
             temperature : WebTemperatureTexts("C") \cup WebTemperatureTexts("F"),
             tempUnit : {"C", "F"}, roundTrip : {"true", "false"},
             material : MaterialKeys, installation : InstallationMethods,
             wireType : {"generic", "pvc"}] :
        f.temperature \in WebTemperatureTexts(f.tempUnit) }

ClickCalculate ==
    /\ fnArgs.fn = "calculate"
    /\ ~fnOut.web.done
    /\ \E page \in { webCalculate(fnArgs) } :
          fnOut' = [fnOut EXCEPT !.web = [done |-> TRUE, page |-> page]]
    /\ UNCHANGED fnArgs
    /\ UNCHANGED othersOfFn

InitWeb ==
    /\ fnArgs \in WebForms
    /\ fnOut = NoOutputs
    /\ ResolverIdle
    /\ CliIdle
    /\ TuiIdle

NextWeb == ClickCalculate

SpecWeb == InitWeb /\ [][NextWeb]_vars

LargestMetric == standardMetricSizes[Len(standardMetricSizes)]
LargestAWG == awgSizes[Len(awgSizes)].Area

(***************************************************************************)
(* C1: for every required area, neither resolver (main.go's nor            *)
(* script.js's) returns a metric or AWG size smaller than the required     *)
(* area, unless the required area exceeds the largest entry of the table,  *)
(* in which case the largest entry is returned.                            *)
(***************************************************************************)
C1_NeverSmallerThanRequired ==
    /\ resGo.done =>
        /\ IF FGt(resArea, LargestMetric)
           THEN resGo.closestMetric = LargestMetric
           ELSE FGe(resGo.closestMetric, resArea)
        /\ IF FGt(resArea, LargestAWG)
           THEN resGo.awgArea = LargestAWG
           ELSE FGe(resGo.awgArea, resArea)
    /\ resWeb.done =>
        /\ IF FGt(resArea, LargestMetric)
           THEN resWeb.metricSize = LargestMetric
           ELSE FGe(resWeb.metricSize, resArea)
        /\ IF FGt(resArea, LargestAWG)
           THEN resWeb.awgArea = LargestAWG
           ELSE FGe(resWeb.awgArea, resArea)

(***************************************************************************)
(* C2: for every validated request of the command line program, the actual *)
(* voltage drop recomputed for the chosen metric or AWG size exceeds the    *)
(* maximum drop V*p/100 only if the required area exceeds every entry of   *)
(* that table, and whenever the chosen size is >= the required area the    *)
(* actual drop is <= the maximum drop.                                     *)
(***************************************************************************)
C2_ActualDropWithinMaximum ==
    cli.report.done =>
        LET r == cli.report
        IN  /\ FGt(r.actualDropMetric, r.maxVoltageDrop)
                => FGt(r.requiredArea, LargestMetric)
            /\ FGt(r.actualDropAWG, r.maxVoltageDrop)
                => FGt(r.requiredArea, LargestAWG)
            /\ FGe(r.closestMetric, r.requiredArea)
                => FLe(r.actualDropMetric, r.maxVoltageDrop)
            /\ FGe(r.awgArea, r.requiredArea)
                => FLe(r.actualDropAWG, r.maxVoltageDrop)

(***************************************************************************)
(* C3: when voltage * maxVoltageDropPercent/100 is zero, calculateCableArea *)
(* (main.go's and script.js's) reports an error to its caller and returns  *)
(* neither infinity nor NaN.                                               *)
(***************************************************************************)
ZeroMaxDrop ==
    /\ fnArgs.fn = "calculateCableArea"
    /\ (fnArgs.voltage = Zero \/ fnArgs.maxVoltageDropPercent = Zero)

C3_ZeroDropIsDomainError ==
    ZeroMaxDrop =>
        /\ fnOut.go.done => (fnOut.go.err /\ IsFinite(fnOut.go.area))
        /\ fnOut.web.done => (fnOut.web.err /\ IsFinite(fnOut.web.area))

(***************************************************************************)
(* C4: for arguments both front ends accept (0 < V <= 50, p > 0), the      *)
(* calculateCableArea of script.js returns exactly the required area that  *)
(* the calculateCableArea of main.go returns.                              *)
(***************************************************************************)
AcceptedByBoth ==
    /\ fnArgs.fn = "calculateCableArea"
    /\ FGt(fnArgs.voltage, Zero) /\ FLe(fnArgs.voltage, Int2F(50))
    /\ FGt(fnArgs.current, Zero) /\ FGt(fnArgs.length, Zero)
    /\ FGt(fnArgs.maxVoltageDropPercent, Zero)
    /\ FLe(fnArgs.maxVoltageDropPercent, Int2F(10))

C4_WebAreaEqualsGoArea ==
    (AcceptedByBoth /\ fnOut.go.done /\ fnOut.web.done)
        => fnOut.web.area = fnOut.go.area

(***************************************************************************)
(* C5: for every required area, script.js's resolvers select the same      *)
(* metric size and the same AWG size as main.go's resolvers.               *)
(***************************************************************************)
C5_WebResolverMatchesGo ==
    (resGo.done /\ resWeb.done) =>
        /\ resWeb.metricSize = resGo.closestMetric
        /\ resWeb.awgLabel = resGo.closestAWG
        /\ resWeb.awgArea = resGo.awgArea

(***************************************************************************)
(* C6: started with --tui or -t the program runs the TUI; started without  *)
(* arguments it runs the command line prompt sequence.                     *)
(***************************************************************************)
C6_FlagSelectsFrontEnd ==
    mode # "none" =>
        /\ progArgs \in { << "--tui" >>, << "-t" >> } => mode = "tui"
        /\ progArgs = << >> => mode = "cli"

(***************************************************************************)
(* C7: the example session of README.md (12 V, 10 A, 5 m, 3 %, round trip, *)
(* copper, 25 C, conduit, FLRY).                                           *)
(***************************************************************************)
ReadmeSession ==
    /\ cli.pc = "done"
    /\ cli.voltage = Int2F(12) /\ cli.current = Int2F(10) /\ cli.length = Int2F(5)
    /\ cli.maxVoltageDropPercent = Int2F(3) /\ cli.roundTrip
    /\ cli.material = "copper"
    /\ cli.tempUnitStr = Text_C /\ cli.ambientTemp = Int2F(25)
    /\ cli.installation = "conduit" /\ cli.wireType = "flry"

Shown(v) == [k |-> "fin", neg |-> FALSE, v |-> v]

TextIsPositive(text) ==
    /\ text # EmptyString
    /\ ~ParseFloat(text).err
    /\ FGt(ParseFloat(text).val, Int2F(0))

InputsAcceptable(m) ==
    /\ TextIsPositive(InputValue(m, 0))
    /\ FLe(ParseFloat(InputValue(m, 0)).val, Int2F(50))
    /\ TextIsPositive(InputValue(m, 1))
    /\ TextIsPositive(InputValue(m, 2))

C8_ValidationAcceptsOnlyValid ==
    /\ (validateInputs(tui) = "") <=> InputsAcceptable(tui)
    /\ tui.step >= 1 => InputsAcceptable(tui)

(***************************************************************************)
(* C9: ValidateWireTemperature (and validateWireTemperature of script.js)  *)
(* gives, for effective temperature T and a wire type of maximum M:        *)
(* T > M -> (invalid, non-empty message); 0.9*M < T <= M -> (valid,        *)
(* non-empty caution message); T <= 0.9*M -> (valid, empty message).       *)
(***************************************************************************)
ThreeWay(T, M, out) ==
    /\ FGt(T, M) => (~out.isValid /\ Len(out.msg) > 0)
    /\ (FGt(T, FMul(M, Fin(9, 10))) /\ FLe(T, M))
        => (out.isValid /\ Len(out.msg) > 0
                /\ out.msg[1] \in {"CAUTION", "cautionTempClose"})
    /\ FLe(T, FMul(M, Fin(9, 10))) => (out.isValid /\ Len(out.msg) = 0)

C9_ThreeVerdicts ==
    fnArgs.fn = "ValidateWireTemperature" =>
        LET T == fnArgs.effectiveTempCelsius
            M == wireTypes[fnArgs.wireType].MaxTempCelsius
        IN  /\ fnOut.go.done => ThreeWay(T, M, fnOut.go)
            /\ fnOut.web.done => ThreeWay(T, M, fnOut.web)

\* The rating itself, T = M, has been classified: the boundary of the first
\* two verdicts.
C9_Witness ==
    /\ fnArgs.fn = "ValidateWireTemperature"
    /\ fnArgs.effectiveTempCelsius = wireTypes[fnArgs.wireType].MaxTempCelsius
    /\ fnOut.go.done /\ fnOut.go.isValid /\ Len(fnOut.go.msg) > 0
    /\ fnOut.web.done

(***************************************************************************)
(* C10: after every execution of calculate (the TUI is at step 5) the      *)
(* results hold the parsed inputs, the required area, the diameter, the    *)
(* standard sizes and the actual drops whatever the verdict is, and        *)
(* m.warning is non-empty exactly when the effective temperature is above  *)
(* the rating (unsafe) or above 90 % of it (cautionary).                   *)
(***************************************************************************)
ResultsFilled(m) ==
    LET r == m.results
        load == FMul(FMul(FMul(r.current,
                                calculateResistivityAtTemp(r.material, r.effectiveTemp)),
                           r.length),
                     DistanceFactor(r.roundTrip))
    IN  /\ r.voltage = ParsedOrZero(InputValue(m, 0))
        /\ r.current = ParsedOrZero(InputValue(m, 1))
        /\ r.length = ParsedOrZero(InputValue(m, 2))
        /\ r.roundTrip = m.roundTrip
        /\ r.material = materials[materialKeys[m.selectedMaterial + 1]]
        /\ r.installation = installationKeys[m.selectedInstallation + 1]
        /\ r.wireType = wireTypes[wireTypeKeys[m.selectedWireType + 1]]
        /\ r.effectiveTemp = calculateEffectiveTemp(r.ambientTemp, r.installation)
        /\ r.requiredArea =
                calculateCableArea(r.voltage, r.current, r.length,
                                   r.maxVoltageDropPercent, r.material, r.roundTrip,
                                   r.ambientTemp, r.installation)
        /\ r.requiredDiameter = areaToDiameter(r.requiredArea)
        /\ r.closestMetric = findClosestMetricSize(r.requiredArea).closestSize
        /\ r.closestAWG = findClosestAWG(r.requiredArea).closestLabel
        /\ r.awgArea = findClosestAWG(r.requiredArea).closestArea
        /\ r.actualDropMetric = FDiv(load, r.closestMetric)
        /\ r.actualDropAWG = FDiv(load, r.awgArea)

Unsafe(r) == FGt(r.effectiveTemp, r.wireType.MaxTempCelsius)
Cautionary(r) ==
    /\ ~Unsafe(r)
    /\ FGt(r.effectiveTemp, FMul(r.wireType.MaxTempCelsius, Fin(9, 10)))

C10_VerdictGatesNothing ==
    tui.step = 5 =>
        /\ ResultsFilled(tui)
        /\ (Len(tui.warning) > 0) <=> (Unsafe(tui.results) \/ Cautionary(tui.results))

\* A calculation with an unsafe verdict has filled the results and the warning.
C10_Witness ==
    /\ tui.step = 5
    /\ Unsafe(tui.results)
    /\ Len(tui.warning) > 0
    /\ FGt(tui.results.requiredArea, Zero)
    /\ FGt(tui.results.closestMetric, Zero)

(***************************************************************************)
(* C11: for every ampacity and safety factor, findRecommendedFuse returns  *)
(* a member of the standard fuse set (never null), and the returned rating *)
(* is <= ampacity * safetyFactor unless it is the smallest standard size,  *)
(* 5 A.                                                                    *)
(***************************************************************************)
FuseSet == { standardFuseSizes[i] : i \in 1..Len(standardFuseSizes) }

C11_FuseIsStandardAndBounded ==
    (fnArgs.fn = "findRecommendedFuse" /\ fnOut.web.done) =>
        LET fuseSize == fnOut.web.result.fuseSize
        IN  /\ fuseSize \in FuseSet
            /\ \/ FLe(fuseSize, FMul(fnArgs.ampacity, fnArgs.safetyFactor))
               \/ fuseSize = Int2F(5)

\* The smallest fuse returned although it exceeds ampacity * safetyFactor.
C11_Witness ==
    /\ fnArgs.fn = "findRecommendedFuse"
    /\ fnOut.web.done
    /\ fnArgs.safetyFactor = Fin(85, 100)
    /\ fnArgs.ampacity = Fin(25, 10)
    /\ fnOut.web.result.fuseSize = Int2F(5)
    /\ FGt(fnOut.web.result.fuseSize, fnOut.web.result.maxFuseCurrent)

(***************************************************************************)
(* C12: findRecommendedFuse returns the largest standard fuse size that is *)
(* <= ampacity * safetyFactor: whenever at least one standard size         *)
(* qualifies, no standard size strictly larger than the returned one is    *)
(* also <= ampacity * safetyFactor.                                        *)
(***************************************************************************)
C12_LargestFuseThatFits ==
    (fnArgs.fn = "findRecommendedFuse" /\ fnOut.web.done) =>
        LET maxFuseCurrent == FMul(fnArgs.ampacity, fnArgs.safetyFactor)
            fuseSize == fnOut.web.result.fuseSize
        IN  (\E f \in FuseSet : FLe(f, maxFuseCurrent)) =>
                /\ FLe(fuseSize, maxFuseCurrent)
                /\ \A f \in FuseSet : FGt(f, fuseSize) => ~FLe(f, maxFuseCurrent)

\* A fuse strictly inside the table returned for a bound it meets exactly.
C12_Witness ==
    /\ fnArgs.fn = "findRecommendedFuse"
    /\ fnOut.web.done
    /\ fnArgs.safetyFactor = Int2F(1)
    /\ fnArgs.ampacity = Fin(75, 10)
    /\ fnOut.web.result.fuseSize = Fin(75, 10)

(***************************************************************************)
(* C13: findMinimumSafeCableSize and findMinimumSafeAWGSize return the     *)
(* first (smallest) table size whose derated ampacity is >= requiredCurrent *)
(* * safetyMargin with safe = true; if no table size qualifies they return *)
(* the largest table size with safe = false; so safe is true exactly when  *)
(* the returned size's ampacity is >= requiredCurrent * safetyMargin, and   *)
(* when safe no smaller table size qualifies.                              *)
(***************************************************************************)
MetricAreas == { webStandardMetricSizes[i] : i \in 1..Len(webStandardMetricSizes) }
AWGAreas == { webAwgSizes[i].Area : i \in 1..Len(webAwgSizes) }

\* area carries requiredCurrent * safetyMargin under the request's conditions.
Carries(area) ==
    FGe(calculateAmpacity(area, webMaterials[fnArgs.material], fnArgs.installation,
                          fnArgs.ambientTempCelsius, webWireTypes[fnArgs.wireType]),
        FMul(fnArgs.requiredCurrent, fnArgs.safetyMargin))

MinimumSafe(r, areas, largest) ==
    /\ r.area \in areas
    /\ r.safe <=> Carries(r.area)
    /\ r.safe => \A a \in areas : FLt(a, r.area) => ~Carries(a)
    /\ ~r.safe => r.area = largest /\ \A a \in areas : ~Carries(a)

C13_MinimumSafeSize ==
    fnArgs.fn = "findMinimumSafeSize" =>
        /\ fnOut.web.done =>
            /\ MinimumSafe(fnOut.web.result, MetricAreas, LargestMetric)
            /\ fnOut.web.result.size = fnOut.web.result.area
        /\ fnOut.awg.done =>
            /\ MinimumSafe(fnOut.awg.result, AWGAreas, LargestAWG)
            /\ \E i \in 1..Len(webAwgSizes) :
                    /\ webAwgSizes[i].Label = fnOut.awg.result.label
                    /\ webAwgSizes[i].Area = fnOut.awg.result.area

\* One request for which the metric search returns a size inside the table
\* as safe and the AWG search falls back to its largest size as unsafe.
C13_Witness ==
    /\ fnArgs.fn = "findMinimumSafeSize"
    /\ fnOut.web.done
    /\ fnOut.awg.done
    /\ fnOut.web.result.safe
    /\ FGt(fnOut.web.result.area, webStandardMetricSizes[1])
    /\ FLt(fnOut.web.result.area, LargestMetric)
    /\ ~fnOut.awg.result.safe
    /\ fnOut.awg.result.area = LargestAWG

(***************************************************************************)
(* C14: for every area, material, installation method and wire type,       *)
(* calculateAmpacity is monotonically non-increasing in the ambient        *)
(* temperature: ambient t1 <= t2 implies ampacity(t1) >= ampacity(t2),      *)
(* across the 90 %-of-rating penalty threshold and outside the 20..105 C   *)
(* derating table too.                                                     *)
(***************************************************************************)
C14_AmpacityFallsWithAmbient ==
    (fnArgs.fn = "calculateAmpacity" /\ fnOut.web.done /\ fnOut.warmer.done) =>
        (FLe(fnArgs.ambientTempCelsius, fnOut.warmer.ambientTempCelsius) =>
            FGe(fnOut.web.ampacity, fnOut.warmer.ampacity))

\* Two calls, the cooler below the penalty threshold of PVC in free air and
\* inside the derating table, the warmer past the threshold, with a strictly
\* lower ampacity.
C14_Witness ==
    /\ fnArgs.fn = "calculateAmpacity"
    /\ fnOut.web.done
    /\ fnOut.warmer.done
    /\ fnArgs.wireType = "pvc"
    /\ fnArgs.installation = "air"
    /\ fnArgs.ambientTempCelsius = Int2F(62)
    /\ fnOut.warmer.ambientTempCelsius = Int2F(66)
    /\ FGt(fnOut.web.ampacity, fnOut.warmer.ampacity)

(***************************************************************************)
(* C15: the temperature derating factor used by calculateAmpacity is the   *)
(* linear interpolation between the two table entries bracketing the       *)
(* ambient temperature, and is clamped outside the table: exactly 1.0 for  *)
(* every ambient <= 20 C and exactly 0.36 for every ambient >= 105 C; it   *)
(* never lies outside [0.36, 1.0].                                         *)
(***************************************************************************)
\* The entries i, i + 1 bracket t and f lies on the line through them:
\* (f - f1) * (t2 - t1) = (f2 - f1) * (t - t1).
OnLineBetween(i, t, f) ==
    LET lo == temperatureDeratingFactors[i]
        hi == temperatureDeratingFactors[i + 1]
    IN  /\ FLe(lo.temp, t)
        /\ FLe(t, hi.temp)
        /\ FEq(FMul(FSub(f, lo.factor), FSub(hi.temp, lo.temp)),
               FMul(FSub(hi.factor, lo.factor), FSub(t, lo.temp)))

C15_DeratingInterpolatedAndClamped ==
    (fnArgs.fn = "calculateAmpacity" /\ fnOut.web.done) =>
        LET t == fnArgs.ambientTempCelsius
            f == fnOut.web.tempFactor
        IN  /\ FLe(t, Int2F(20)) => f = Int2F(1)
            /\ FGe(t, Int2F(105)) => f = Fin(36, 100)
            /\ (FGt(t, Int2F(20)) /\ FLt(t, Int2F(105))) =>
                    \E i \in 1..(Len(temperatureDeratingFactors) - 1) :
                        OnLineBetween(i, t, f)
            /\ FGe(f, Fin(36, 100))
            /\ FLe(f, Int2F(1))

\* The factor read between two entries: 0.734 at 62 C, between 0.75 at 60 C
\* and 0.67 at 70 C.
C15_Witness ==
    /\ fnArgs.fn = "calculateAmpacity"
    /\ fnOut.web.done
    /\ fnArgs.ambientTempCelsius = Int2F(62)
    /\ fnOut.web.tempFactor = Fin(734, 1000)

(***************************************************************************)
(* C16: in calculateAmpacity the additional wire-rating penalty is applied *)
(* exactly when the effective temperature (ambient + installation           *)
(* adjustment) exceeds 0.9 * maxTemp, equals                               *)
(* max(0.5, 1 - (Teff - 0.9*maxTemp)/(0.1*maxTemp)), and so always lies in  *)
(* [0.5, 1]; the result is base * materialFactor * tempFactor *            *)
(* installationFactor times that penalty.                                  *)
(***************************************************************************)
\* The effective temperature of the request and 90 % of the rating.
Teff == FAdd(fnArgs.ambientTempCelsius, installationAdjustments[fnArgs.installation])
NinetyPercent == FMul(webWireTypes[fnArgs.wireType].MaxTempCelsius, Fin(9, 10))

\* The penalty of the claim; 1 where it is not applied.
Penalty ==
    IF FGt(Teff, NinetyPercent)
    THEN LET linear == FSub(Int2F(1),
                 FDiv(FSub(Teff, NinetyPercent),
                      FMul(webWireTypes[fnArgs.wireType].MaxTempCelsius, Fin(1, 10))))
         IN  IF FGt(linear, Fin(1, 2)) THEN linear ELSE Fin(1, 2)
    ELSE Int2F(1)

Underated ==
    FMul(FMul(FMul(BaseAmpacity(fnArgs.area), MaterialFactor(webMaterials[fnArgs.material])),
              fnOut.web.tempFactor),
         InstallationFactor(fnArgs.installation))

C16_PenaltyPastNinetyPercent ==
    (fnArgs.fn = "calculateAmpacity" /\ fnOut.web.done) =>
        /\ FGe(Penalty, Fin(1, 2))
        /\ FLe(Penalty, Int2F(1))
        /\ fnOut.web.ampacity = FMul(Underated, Penalty)
        /\ (~FGt(Teff, NinetyPercent)) => fnOut.web.ampacity = Underated

\* The penalty strictly between its floor and 1: THHN in conduit at 75 C has
\* Teff 85 against 81, so 1 - 4/9.
C16_Witness ==
    /\ fnArgs.fn = "calculateAmpacity"
    /\ fnOut.web.done
    /\ fnArgs.wireType = "thhn"
    /\ fnArgs.installation = "conduit"
    /\ fnArgs.ambientTempCelsius = Int2F(75)
    /\ Penalty = Fin(5, 9)
    /\ fnOut.web.ampacity = FMul(Underated, Fin(5, 9))

(***************************************************************************)
(* C17: when the required area exceeds every entry of a standard-size      *)
(* table, the resolver returns the largest entry of that table together    *)
(* with margin = requiredArea - largestArea, a strictly positive deficit;  *)
(* in every other case the reported margin is non-negative.                *)
(***************************************************************************)
MarginOfFallback(size, margin, largest) ==
    IF FGt(resArea, largest)
    THEN /\ size = largest
         /\ margin = FSub(resArea, largest)
         /\ FGt(margin, Zero)
    ELSE FGe(margin, Zero)

Distance(area) == FAbs(FSub(area, resArea))

ClosestEarliest(size, diff, areas) ==
    /\ size \in areas
    /\ diff = Distance(size)
    /\ \A a \in areas : FLe(diff, Distance(a))
    /\ \A a \in areas : Distance(a) = diff => FGe(a, size)

OneWayArea ==
    calculateCableArea(fnArgs.voltage, fnArgs.current, fnArgs.length,
        fnArgs.maxVoltageDropPercent, materials[fnArgs.material], FALSE,
        fnArgs.ambientTempCelsius, fnArgs.installation)

WebOneWayArea ==
    webCalculateCableArea(fnArgs.voltage, fnArgs.current, fnArgs.length,
        fnArgs.maxVoltageDropPercent, webMaterials[fnArgs.material], FALSE,
        fnArgs.ambientTempCelsius, fnArgs.installation)

C19_RoundTripDoubles ==
    (AcceptedByBoth /\ fnArgs.roundTrip) =>
        /\ fnOut.go.done => FEq(fnOut.go.area, FMul(Int2F(2), OneWayArea))
        /\ fnOut.web.done => FEq(fnOut.web.area, FMul(Int2F(2), WebOneWayArea))

\* A valid round-trip request computed by both programs, its area finite and
\* positive.
C19_Witness ==
    /\ AcceptedByBoth
    /\ fnArgs.roundTrip
    /\ fnOut.go.done
    /\ fnOut.web.done
    /\ IsFinite(fnOut.go.area)
    /\ FGt(fnOut.go.area, Zero)
    /\ FGt(fnOut.go.area, OneWayArea)

(***************************************************************************)
(* C20: calculateCableArea returns I * rho(T_eff) * L * d / (V * p/100)    *)
(* with d = 2 for round trip and 1 otherwise, T_eff = ambient +            *)
(* installation adjustment (0, 10, 20 C for air, conduit, isolated) and    *)
(* rho(T) = rho_ref * (1 + alpha * (T - T_ref)), rho_ref being the         *)
(* resistivity at 20 C; for 12 V, 10 A, 5 m, 3 %, copper, one-way, 20 C,   *)
(* in air the result is 2.43 mm2 within 0.01, and 0 C isolated gives the   *)
(* same area as 20 C in air.                                               *)
(***************************************************************************)
\* The area of the claim for the request in fnArgs.
AdjustmentOf(installation) ==
    CASE installation = "air"      -> Int2F(0)
      [] installation = "conduit"  -> Int2F(10)
      [] installation = "isolated" -> Int2F(20)

RhoAt(material, T) ==
    FMul(material.Resistivity20C,
         FAdd(Int2F(1), FMul(material.TempCoefficient, FSub(T, Int2F(20)))))

AreaByFormula ==
    LET d == IF fnArgs.roundTrip THEN Int2F(2) ELSE Int2F(1)
        T_eff == FAdd(fnArgs.ambientTempCelsius, AdjustmentOf(fnArgs.installation))
        rho == RhoAt(materials[fnArgs.material], T_eff)
    IN  FDiv(FMul(FMul(FMul(fnArgs.current, rho), fnArgs.length), d),
             FMul(fnArgs.voltage, FDiv(fnArgs.maxVoltageDropPercent, Int2F(100))))

Scenario ==
    /\ fnArgs.fn = "calculateCableArea"
    /\ fnArgs.voltage = Int2F(12) /\ fnArgs.current = Int2F(10)
    /\ fnArgs.length = Int2F(5) /\ fnArgs.maxVoltageDropPercent = Int2F(3)
    /\ fnArgs.material = "copper" /\ ~fnArgs.roundTrip
    /\ fnArgs.ambientTempCelsius = Int2F(20) /\ fnArgs.installation = "air"

AreaAsClaimed(area, sameAt20InAir) ==
    /\ area = AreaByFormula
    /\ Scenario => FLe(FAbs(FSub(area, Fin(243, 100))), Fin(1, 100))
    /\ (fnArgs.ambientTempCelsius = Zero /\ fnArgs.installation = "isolated")
            => area = sameAt20InAir

C20_AreaFormula ==
    AcceptedByBoth =>
        /\ fnOut.go.done =>
            AreaAsClaimed(fnOut.go.area,
                calculateCableArea(fnArgs.voltage, fnArgs.current, fnArgs.length,
                    fnArgs.maxVoltageDropPercent, materials[fnArgs.material],
                    fnArgs.roundTrip, Int2F(20), "air"))
        /\ fnOut.web.done =>
            AreaAsClaimed(fnOut.web.area,
                webCalculateCableArea(fnArgs.voltage, fnArgs.current, fnArgs.length,
                    fnArgs.maxVoltageDropPercent, webMaterials[fnArgs.material],
                    fnArgs.roundTrip, Int2F(20), "air"))

(***************************************************************************)
(* C21: for every request that passes front-end validation (0 < V <= 50,   *)
(* current > 0, length > 0, 0 < p <= 10, either material, any              *)
(* installation, any finite ambient temperature), the required area is     *)
(* strictly positive and the derived diameter is strictly positive.        *)
(***************************************************************************)
C21_AreaAndDiameterPositive ==
    (AcceptedByBoth /\ IsFinite(fnArgs.ambientTempCelsius)) =>
        /\ fnOut.go.done =>
                FGt(fnOut.go.area, Zero) /\ FGt(fnOut.go.diameter, Zero)
        /\ fnOut.web.done =>
                FGt(fnOut.web.area, Zero) /\ FGt(fnOut.web.diameter, Zero)

(***************************************************************************)
(* C22: in every front end the maximum voltage drop percent handed to the  *)
(* area calculation lies in (0, 10]: a typed value in that range is used   *)
(* unchanged, and a missing, unparsable or out-of-range one is replaced by *)
(* the default 3.0.  Stated of the web page's calculate(), of main()'s     *)
(* prompt and of the terminal form's calculate().                          *)
(***************************************************************************)
InDropRange(p) == FGt(p, Zero) /\ FLe(p, Int2F(10))

\* The percent the claim allows for a typed value (NaN when none parses).
DropPercentAsClaimed(typed) == IF InDropRange(typed) THEN typed ELSE Int2F(3)

TypedNumber(text) ==
    LET r == ParseFloat(text) IN IF r.err THEN NaN ELSE r.val

C22_DropPercentInRangeOrDefault ==
    /\ (fnArgs.fn = "calculate" /\ fnOut.web.done /\ fnOut.web.page.shown) =>
          fnOut.web.page.maxVoltageDropPercent
              = DropPercentAsClaimed(webParseFloat(fnArgs.voltageDrop))
    /\ cli.pc \notin {"start", "voltage", "current", "length", "drop", "exit"} =>
          InDropRange(cli.maxVoltageDropPercent)
    /\ tui.step = 5 =>
          tui.results.maxVoltageDropPercent
              = DropPercentAsClaimed(TypedNumber(InputValue(tui, 3)))

\* The same, of main()'s prompt alone.
C22_CliDropPercent ==
    cli.pc \notin {"start", "voltage", "current", "length", "drop", "exit"} =>
        InDropRange(cli.maxVoltageDropPercent)

(***************************************************************************)
(* C25: when the required area exceeds the largest standard size (240 mm2  *)
(* metric, AWG 4/0), the web page labels that recommendation "largest      *)
(* available", with the deficit, and never "rounded up".                   *)
(***************************************************************************)
WebShown == fnArgs.fn = "calculate" /\ fnOut.web.done /\ fnOut.web.page.shown

C25_FallbackLabelledLargestAvailable ==
    WebShown =>
        LET page == fnOut.web.page
        IN  /\ FGt(page.requiredArea, LargestMetric) =>
                 page.metricNote[1] = "largestAvailable"
            /\ FGt(page.requiredArea, LargestAWG) =>
                 page.awgNote[1] = "largestAvailable"

(***************************************************************************)
(* C30: whenever the web page shows no fuse warning (the load current is   *)
(* at most the ampacity and at most 0.85 of the ampacity, for the          *)
(* recommended metric and the recommended AWG size), the fuse recommended  *)
(* for each of the two sizes is rated at least the load current.           *)
(***************************************************************************)
C30_FuseCarriesLoadWhenNoWarning ==
    (WebShown /\ fnOut.web.page.advice.fuseWarning.box = "hidden") =>
        LET advice == fnOut.web.page.advice
            current == webParseFloat(fnArgs.current)
        IN  /\ FGe(advice.metricFuse.fuseSize, current)
            /\ FGe(advice.awgFuse.fuseSize, current)

(***************************************************************************)
(* C23: q and ctrl+c end the terminal program from every step 0..5; Esc on *)
(* a step k of 1..4 leads to step k - 1 and changes nothing else of the    *)
(* model (the inputs and the selections are kept); the step stays within   *)
(* 0..5 and a key changes it by +1, by -1 or back to 0, or not at all.     *)
(***************************************************************************)
QuitKeys == { NamedKey("ctrl+c"), RunesKey(<< "q" >>) }

C23_QuitEscAndSteps ==
    [][ /\ tui.step \in 0..5
        /\ tui'.step \in { tui.step, tui.step + 1, tui.step - 1, 0 } \cap 0..5
        /\ \A key \in QuitKeys : Deliver(key) => tuiRun'.quit
        /\ (Deliver(NamedKey("esc")) /\ tui.step \in 1..4) =>
              tui' = [tui EXCEPT !.step = tui.step - 1] ]_vars

\* Esc was pressed on the wire type step, after "conduit" was chosen, and
\* the program was then ended with q or ctrl+c on the installation step.
C23_Witness ==
    /\ tuiRun.escapes = 1
    /\ tuiRun.quit
    /\ tui.step = 2
    /\ tui.selectedInstallation = 1
    /\ tui.wireTypeList.index = 8
    /\ InputValue(tui, 0) = << "1", "2" >>

(***************************************************************************)
(* C24: r on the results step (5) puts the whole model back to its initial *)
(* state: step 0, input 0 focused, the six inputs empty, roundTrip false,  *)
(* err and warning empty, the results zeroed; on no other step does r have *)
(* this effect.                                                            *)
(***************************************************************************)
Pristine(m) ==
    /\ m.step = 0
    /\ m.focused = 0
    /\ \A i \in 0..5 : /\ InputValue(m, i) = EmptyString
                       /\ m.inputs[i + 1].focus = (i = 0)
    /\ m.roundTrip = FALSE
    /\ m.err = ""
    /\ m.warning = NoMessage
    /\ m.results = ZeroResults
    /\ m.showResults = FALSE
    /\ m.selectedMaterial = 0 /\ m.selectedInstallation = 0
    /\ m.selectedWireType = 0
    /\ m.materialList.index = 0 /\ m.installationList.index = 0
    /\ m.wireTypeList.index = 0

C24_RestartOnlyFromResults ==
    [][ Deliver(RunesKey(<< "r" >>)) =>
            IF tui.step = 5 THEN Pristine(tui') ELSE ~Pristine(tui') ]_vars

\* r was pressed on the results step and the model is as at the start.
C24_Witness == tuiRun.restarted /\ Pristine(tui)

(***************************************************************************)
(* C26: the terminal form leaves step 0 for step 1 only on Enter with the  *)
(* last field (index 5) focused and validateInputs() succeeding, and err   *)
(* is then cleared; when validateInputs() fails on that Enter the step     *)
(* stays 0, the focus and the inputs are unchanged and err holds the       *)
(* validation message.                                                     *)
(***************************************************************************)
EnterOnLastField ==
    Deliver(NamedKey("enter")) /\ tui.step = 0 /\ tui.focused = 5

C26_LeavesInputsOnlyWhenValid ==
    [][ /\ (tui.step = 0 /\ tui'.step # 0) =>
              /\ EnterOnLastField
              /\ validateInputs(tui) = ""
              /\ tui'.step = 1
              /\ tui'.err = ""
        /\ (EnterOnLastField /\ validateInputs(tui) = "") => tui'.step = 1
        /\ (EnterOnLastField /\ validateInputs(tui) # "") =>
              tui' = [tui EXCEPT !.err = validateInputs(tui)] ]_vars

\* Enter on the unit field with a current of -5: the message is shown on
\* step 0.
C26_Witness ==
    /\ tui.step = 0
    /\ tui.focused = 5
    /\ InputValue(tui, 0) = << "1", "2" >>
    /\ InputValue(tui, 1) = << "-", "5" >>
    /\ tui.err # ""
    /\ tui.err = validateInputs(tui)

(***************************************************************************)
(* C27: whenever the step is one of 1..5, the voltage, current and length  *)
(* inputs still pass validateInputs(): calculate() never divides by a zero *)
(* or an unparsed voltage.                                                 *)
(***************************************************************************)
C27_InputsStayValidPastStepZero ==
    tui.step \in 1..5 =>
        /\ validateInputs(tui) = ""
        /\ ~ParseFloat(InputValue(tui, 0)).err
        /\ ~FEq(ParseFloat(InputValue(tui, 0)).val, Zero)

\* The results of 12 V, 10 A, 5.0 m, reached after an Esc back to the form.
C27_Witness ==
    /\ tui.step = 5
    /\ tuiRun.escapes = 1
    /\ InputValue(tui, 0) = << "1", "2" >>
    /\ tui.results.voltage = Int2F(12)
    /\ FGt(tui.results.requiredArea, Zero)

(***************************************************************************)
(* C28: after Enter, Tab, Down, Shift+Tab, Up, Esc and r, focused is an    *)
(* index of 0..5 and inputs[focused] is the one input that has the focus.  *)
(***************************************************************************)
C28_ExactlyOneFocusedInput ==
    /\ tui.focused \in 0..5
    /\ \A i \in 0..5 : tui.inputs[i + 1].focus = (i = tui.focused)

\* The focus was moved to the length field and back to the current field,
\* after an Esc and a restart with r.
C28_Witness ==
    /\ tuiRun.restarted
    /\ tuiRun.escapes = 1
    /\ tui.step = 0
    /\ tui.focused = 1
    /\ tui.inputs[2].focus
    /\ InputValue(tui, 2) = << "5", ".", "0" >>

====
